---- MODULE Spec2Model ----
(***************************************************************************)
(* Model of the scope-hoisting transform hoist(asset, ast) of             *)
(* packages/shared/scope-hoisting/src/hoist.js.                            *)
(*                                                                         *)
(* A module is a program body: a sequence of statements.  Each statement   *)
(* carries one construct the visitor reacts to (its kind and shape), the   *)
(* lexical context of that construct and the names the statement binds in  *)
(* the program scope and references.  Identifier names are sequences of    *)
(* tokens, so that prefix tests (String.startsWith) are computed.          *)
(*                                                                         *)
(* One run of hoist is: Program.enter (the pre-scan), the body walk (one   *)
(* handler call per visited node, in tree order), Program.exit.            *)
(***************************************************************************)
EXTENDS Integers, Sequences, FiniteSets, TLC

\* Largest number of statements of an input module.
MaxBody == 2

\* Largest number of statements of a tree of an unsupported type or version.
MaxRejected == 1

\* Largest number of statements of a module of imports and re-exports.
MaxReexports == 3

\* Largest number of ctrl-c, signal and stdin-end requests in one run().
MaxRequests == 3

(***************************************************************************)
(* Names                                                                   *)
(***************************************************************************)
AssetId == "A"

\* t.toIdentifier('$' + asset.id), the prefix tested by Program.exit.
AssetPrefix == <<"$", AssetId>>

StartsWith(name, prefix) ==
  /\ Len(name) >= Len(prefix)
  /\ SubSeq(name, 1, Len(prefix)) = prefix

\* getName(asset, type, ...rest): '$' + id + '$' + type [+ '$' + rest].
getName(type, rest) ==
  IF rest = <<>> THEN <<"$", AssetId, "$", type>>
                 ELSE <<"$", AssetId, "$", type, "$">> \o rest

\* getIdentifier(asset, type, ...rest) is t.identifier(getName(...)).
getIdentifier(type, rest) == getName(type, rest)

\* getExportIdentifier(asset, name).
getExportIdentifier(name) == getIdentifier("export", name)

STAR == <<"*">>
DEFAULT == <<"default">>
NX == <<"x">>
NY == <<"y">>
NF == <<"f">>
NS == <<"ns">>
NK == <<"k">>
\* A property name that is not identifier-shaped: exports["a-b"].
NAB == <<"a-b">>
\* A user name that starts with '$' + asset.id but not with '$' + asset.id + '$'.
NPX == <<"$", AssetId, "x">>
\* A user name that already carries the whole asset prefix.
NGX == <<"$", AssetId, "$", "x">>

EXPORTS == <<"exports">>
MODULE_ == <<"module">>
PARCEL_REQUIRE == <<"$parcel$require">>
PARCEL_EXPORT == <<"$parcel$export">>
PARCEL_EXPORT_WILDCARD == <<"$parcel$exportWildcard">>
PARCEL_GLOBAL == <<"$parcel$global">>

(***************************************************************************)
(* Symbol tables: sets of entries with distinct keys.                      *)
(***************************************************************************)
NoSymbols == {}

SymHas(tab, key) == \E e \in tab : e.key = key

SymGet(tab, key) == CHOOSE e \in tab : e.key = key

SymSet(tab, key, local, weak) ==
  {e \in tab : e.key # key} \cup {[key |-> key, local |-> local, isWeak |-> weak]}

SymKeys(tab) == {e.key : e \in tab}

hasLocalSymbol(tab, local) == \E e \in tab : e.local = local

(***************************************************************************)
(* Statements                                                              *)
(***************************************************************************)
\* key: the property, imported or exported name the construct names;
\* strict: the statement holds a function body with a 'use strict' directive;
\* binds: names it declares in the program scope; refs: names it references;
\* tracked: its references are reference paths of the scope's bindings (they
\* were there at the last crawl), so that a rename reaches them.
Stmt(kind, shape, ctx, bound, src, key, strict, binds, refs) ==
  [kind |-> kind, shape |-> shape, ctx |-> ctx, bound |-> bound, src |-> src,
   key |-> key, strict |-> strict, binds |-> binds, refs |-> refs, tracked |-> TRUE]

\* A statement built from a template or from fresh identifier nodes.
Fresh(s) == [s EXCEPT !.tracked = FALSE]

\* Statements without a construct a handler reacts to.
Inert(strict, binds, refs) ==
  Fresh(Stmt("Expr", "", "top", FALSE, "", <<>>, strict, binds, refs))

(***************************************************************************)
(* Input modules                                                           *)
(***************************************************************************)
\* ctx: "top" = the statement is a direct child of the program and the
\* construct has no enclosing function; "fn" = the construct sits in a
\* function body; "block" = the statement is a child of a block or an if
\* statement, not of the program; "cond" = the statement is a direct child of
\* the program and the construct sits under a conditional or logical
\* expression.  bound: the construct's free name (module, exports, eval,
\* require) has a binding in an enclosing function scope.
Returns ==
  { Stmt("Return", "arg", c, FALSE, "", <<>>, FALSE, {}, {}) : c \in {"top", "fn"} }

EvalCalls ==
  { Stmt("EvalCall", "", IF b THEN "fn" ELSE "top", b, "", <<>>, FALSE, {}, {})
      : b \in BOOLEAN }

\* module (bare), typeof module, module.id (static), module["id"] (computedStr).
ModuleRefs ==
  { Stmt("ModuleRef", sh, "top", FALSE, "", <<>>, FALSE, {}, {MODULE_})
      : sh \in {"bare", "typeof", "static", "computedStr"} }
  \cup { Stmt("ModuleRef", "bare", "fn", TRUE, "", <<>>, FALSE, {}, {MODULE_}) }

\* f(module.exports) (bare), module.exports.x = rhs (memberAssign).
ModuleExportsRefs ==
  { Stmt("ModuleExports", "bare", "top", FALSE, "", <<>>, FALSE, {}, {MODULE_}),
    Stmt("ModuleExports", "memberAssign", "top", FALSE, "", NX, FALSE, {}, {MODULE_}) }

\* f(exports) (bare), exports = rhs (assignLeft), exports.x = rhs
\* (memberAssign), rhs possibly a function with a 'use strict' directive,
\* exports["a-b"] = rhs (memberAssign with a string-literal property).
ExportsRefs ==
  { Stmt("ExportsRef", "bare", "top", FALSE, "", <<>>, FALSE, {}, {EXPORTS}),
    Stmt("ExportsRef", "assignLeft", "top", FALSE, "", <<>>, FALSE, {}, {EXPORTS}),
    Stmt("ExportsRef", "memberAssign", "top", FALSE, "", NAB, FALSE, {}, {EXPORTS}) }
  \cup { Stmt("ExportsRef", "memberAssign", "top", FALSE, "", NX, st, {}, {EXPORTS})
           : st \in BOOLEAN }

\* f(global), with and without a local binding for global.
GlobalRefs ==
  { Stmt("GlobalRef", "bare", IF b THEN "fn" ELSE "top", b, "", <<>>, FALSE, {},
         {<<"global">>}) : b \in BOOLEAN }

\* require(src): at the top level, inside a function, with a local binding
\* for require, in the block of an if statement (block), under a conditional
\* or logical expression of a top-level statement (cond), of an unknown
\* specifier, and of the async dependency
\* (plain, let {x} = await require(src), let {...rest} = await require(src)).
Requires ==
  { Stmt("Require", "plain", "top", FALSE, "a", <<>>, FALSE, {}, {<<"require">>}),
    Stmt("Require", "plain", "fn", FALSE, "a", <<>>, FALSE, {}, {<<"require">>}),
    Stmt("Require", "plain", "fn", TRUE, "a", <<>>, FALSE, {}, {<<"require">>}),
    Stmt("Require", "plain", "block", FALSE, "a", <<>>, FALSE, {}, {<<"require">>}),
    Stmt("Require", "plain", "cond", FALSE, "a", <<>>, FALSE, {}, {<<"require">>}),
    Stmt("Require", "plain", "top", FALSE, "zz", <<>>, FALSE, {}, {<<"require">>}),
    Stmt("Require", "plain", "top", FALSE, "c", <<>>, FALSE, {}, {<<"require">>}),
    Stmt("Require", "pattern", "top", FALSE, "c", NX, FALSE, {}, {<<"require">>}),
    Stmt("Require", "patternRest", "top", FALSE, "c", <<>>, FALSE, {}, {<<"require">>}) }
  \cup
  \* let ns = await require("c"), ns never or somewhere reassigned
  { Stmt("Require", sh, "top", FALSE, "c", <<>>, FALSE, {NS}, {<<"require">>})
      : sh \in {"binding", "bindingMutable"} }

\* import {x} from "a";  import {y} from "b";  import {x} from "zz" (no
\* dependency has this specifier).  key: the imported name.
Imports ==
  { Stmt("Import", "named", "top", FALSE, "a", NX, FALSE, {NX}, {}),
    Stmt("Import", "named", "top", FALSE, "b", NY, FALSE, {NY}, {}),
    Stmt("Import", "named", "top", FALSE, "zz", NX, FALSE, {NX}, {}) }

\* import * as ns from "a";
NamespaceImports ==
  { Stmt("Import", "namespace", "top", FALSE, "a", <<>>, FALSE, {NS}, {}) }

\* Uses of ns: ns.k (static), ns["k"] (string), f(ns) (value), and
\* g(ns.k, ns) (both).  key: the property.
NsRefs ==
  { Stmt("NsRef", sh, "top", FALSE, "", NK, FALSE, {}, {NS})
      : sh \in {"static", "string", "both"} }
  \cup { Stmt("NsRef", "value", "top", FALSE, "", <<>>, FALSE, {}, {NS}) }

\* export default x; export default <expression>; export default function f(){}
ExportDefaults ==
  { Stmt("ExportDefault", "ident", "top", FALSE, "", DEFAULT, FALSE, {}, {NX}),
    Stmt("ExportDefault", "named", "top", FALSE, "", DEFAULT, FALSE, {NF}, {}) }
  \cup { Stmt("ExportDefault", "expr", "top", FALSE, "", DEFAULT, st, {}, {})
           : st \in BOOLEAN }

\* export const y = 1;  export {x as y};  export {x} from "a";
\* key is the exported name; a local name is in binds or refs; the
\* re-export's imported name is its exported name.
ExportNameds ==
  { Stmt("ExportNamed", "decl", "top", FALSE, "", NY, FALSE, {NY}, {}),
    Stmt("ExportNamed", "spec", "top", FALSE, "", NY, FALSE, {}, {NX}),
    Stmt("ExportNamed", "from", "top", FALSE, "a", NX, FALSE, {}, {}) }

\* export * from "b";
ExportAlls ==
  { Stmt("ExportAll", "", "top", FALSE, "b", <<>>, FALSE, {}, {}) }

\* var x (never reassigned), var x (reassigned), and top-level bindings whose
\* names start with '$' + asset.id.
VarDecls ==
  { Stmt("VarDecl", "const", "top", FALSE, "", <<>>, FALSE, {n}, {}) : n \in {NX, NPX, NGX} }
  \cup { Stmt("VarDecl", "mutable", "top", FALSE, "", <<>>, FALSE, {NX}, {}) }

\* function f(){'use strict'}  and  g(x);
Plain ==
  { Stmt("Expr", "", "top", FALSE, "", <<>>, TRUE, {NF}, {}),
    Stmt("Expr", "", "top", FALSE, "", <<>>, FALSE, {}, {NX}) }

Constructs ==
  Returns \cup EvalCalls \cup ModuleRefs \cup ModuleExportsRefs \cup ExportsRefs
  \cup GlobalRefs \cup NamespaceImports \cup NsRefs
  \cup Requires \cup Imports \cup ExportDefaults \cup ExportNameds \cup ExportAlls
  \cup VarDecls \cup Plain

BindsOf(b) == UNION {b[i].binds : i \in DOMAIN b}

RefsOf(b) == UNION {b[i].refs : i \in DOMAIN b}

\* What the parser accepts: no name is declared twice in the program scope,
\* there is one default export and one export of a name at most, and an
\* export specifier names a declared binding.
ValidProgram(b) ==
  /\ \A i, j \in DOMAIN b : i # j => b[i].binds \cap b[j].binds = {}
  /\ \A i, j \in DOMAIN b :
       (i # j /\ b[i].kind = b[j].kind /\ b[i].kind \in {"ExportDefault", "ExportNamed"})
         => b[i].key # b[j].key
  /\ \A i \in DOMAIN b :
       (b[i].kind = "ExportNamed" /\ b[i].shape = "spec") => b[i].refs \subseteq BindsOf(b)

Programs ==
  { b \in UNION {[1..n -> Constructs] : n \in 0..MaxBody} : ValidProgram(b) }

(***************************************************************************)
(* Dependencies of the asset (declared by an earlier pass)                 *)
(***************************************************************************)
Dep(async) ==
  [isAsync |-> async,
   meta |-> [shouldWrap |-> FALSE, isCommonJS |-> FALSE, hasDefaultImport |-> FALSE],
   symbols |-> NoSymbols]

InitialDeps == [d \in {"a", "b", "c"} |-> Dep(d = "c")]

\* './' + basename(asset.filePath)
SelfSpecifier == "./self"

\* asset.addDependency({moduleSpecifier, symbols: new Map([['*', {local: '@exports', isWeak: false}]])})
addDependency(ds) ==
  [d \in DOMAIN ds \cup {SelfSpecifier} |->
     IF d = SelfSpecifier
       THEN [Dep(FALSE) EXCEPT !.symbols = SymSet(NoSymbols, STAR, <<"@exports">>, FALSE)]
       ELSE ds[d]]

(***************************************************************************)
(* The tree handed to hoist                                                *)
(***************************************************************************)
BabelAST == [type |-> "babel", version |-> "7.0.0"]

\* Trees of another type or another version.
ASTs ==
  { BabelAST,
    [type |-> "postcss", version |-> "7.0.0"],
    [type |-> "babel", version |-> "6.0.0"] }

\* A test of the type alone.
UnsupportedType(a) == a.type # "babel"

\* ast.type !== 'babel' || ast.version !== '7.0.0'
Unsupported(a) == a.type # "babel" \/ a.version # "7.0.0"

(***************************************************************************)
(* State                                                                   *)
(***************************************************************************)
VARIABLES
  pc,            \* "start", "walk", "done", "error"
  ast,           \* the type and version of the tree given to hoist
  astSet,        \* asset.setAST(ast) was called
  error,         \* the error hoist threw, "" when none
  input,         \* the module as given to hoist
  isSource,      \* asset.isSource
  progDirective, \* the program carries a 'use strict' directive
  body,          \* the program body (inside the wrapper once wrapped)
  wrapped,       \* the body has been replaced by the wrapper declaration
  esPreamble,    \* exports.__esModule = true; was prepended
  pos,           \* index of the statement being visited (0: the directives)
  sub,           \* "enter": its handler is due; "inner": its function body is
  meta,          \* asset.meta
  symbols,       \* asset.symbols
  deps,          \* asset.getDependencies()
  shouldWrap,            \* scope data 'shouldWrap'
  cjsExportsReassigned,  \* scope data 'cjsExportsReassigned'
  hoistedImport, \* scope data 'hoistedImport': index in body, 0 when unset
  bindings,      \* program scope bindings
  globals,       \* program scope globals
  references     \* the reference paths of the program scope's bindings

vars ==
  <<pc, ast, astSet, error, input, isSource, progDirective, body, wrapped, esPreamble, pos, sub, meta,
    symbols, deps, shouldWrap, cjsExportsReassigned, hoistedImport, bindings, globals,
    references>>

(***************************************************************************)
(* The state of the command line's run()                                   *)
(***************************************************************************)
VARIABLES
  cliPc,         \* where run() is: "off", "start", "watch", "watching", "build",
                 \* "failed", "afterFail", "awaitExit", "returned"
  isWatching,    \* command.name() is 'watch' or 'serve'
  isTTY,         \* process.stdin.isTTY
  watchForStdin, \* command.watchForStdin
  isExiting,     \* the flag of exit()
  unsubscribe,   \* unsubscribe != null
  isProfiling,   \* parcel.isProfiling
  isRaw,         \* process.stdin.isRaw
  pending,       \* the exit codes of the exit() calls suspended at their await
  unsubscribed,  \* number of calls of unsubscribe()
  stopped,       \* number of calls of parcel.stopProfiling() made by exit()
  disposed,      \* number of calls of disposable.dispose()
  exited,        \* the codes process.exit was called with by exit()
  terminated,    \* the process has ended
  requests,      \* number of keypress, signal and stdin requests so far
  firstCode      \* the exit code of the first call of exit(), "none" before it

cliVars ==
  <<cliPc, isWatching, isTTY, watchForStdin, isExiting, unsubscribe, isProfiling, isRaw,
    pending, unsubscribed, stopped, disposed, exited, terminated, requests, firstCode>>

\* run() has not been called.
CliIdle ==
  /\ cliPc = "off"
  /\ isWatching = FALSE
  /\ isTTY = FALSE
  /\ watchForStdin = FALSE
  /\ isExiting = FALSE
  /\ unsubscribe = FALSE
  /\ isProfiling = FALSE
  /\ isRaw = FALSE
  /\ pending = <<>>
  /\ unsubscribed = 0
  /\ stopped = 0
  /\ disposed = 0
  /\ exited = <<>>
  /\ terminated = FALSE
  /\ requests = 0
  /\ firstCode = "none"

Init ==
  /\ pc = "start"
  /\ ast \in ASTs
  /\ astSet = FALSE
  /\ error = ""
  /\ input \in Programs
  /\ Unsupported(ast) => Len(input) <= MaxRejected
  /\ isSource \in BOOLEAN
  /\ progDirective \in BOOLEAN
  /\ body = input
  /\ wrapped = FALSE
  /\ esPreamble = FALSE
  /\ pos = 0
  /\ sub = "enter"
  /\ meta = [isCommonJS |-> FALSE, isES6Module |-> FALSE, resolveExportsBailedOut |-> FALSE]
  /\ symbols = NoSymbols
  /\ deps = InitialDeps
  /\ shouldWrap = FALSE
  /\ cjsExportsReassigned = FALSE
  /\ hoistedImport = 0
  /\ bindings = {}
  /\ globals = {}
  /\ references = {}
  /\ CliIdle


(***************************************************************************)
(* Program.enter: the pre-scan                                             *)
(***************************************************************************)
\* The inner traversal's visitors applied to one statement.  acc carries the
\* flags written so far; data is path.scope.getData('shouldWrap').
\* The result's stop is path.stop().
ScanImportExport(s, acc) == [acc EXCEPT !.es = TRUE]

ScanCallExpression(s, acc) ==
  IF ~s.bound
    THEN [acc EXCEPT !.cjs = TRUE, !.wrap = TRUE, !.stop = TRUE]
    ELSE acc

\* path.replaceWith(return module.exports)
ReturnModuleExports(s) == [s EXCEPT !.shape = "moduleExports", !.refs = {MODULE_}]

\* A pre-scan that takes every return statement for a top-level one.
ScanEveryReturnStatement(s, acc) ==
  [acc EXCEPT !.wrap = TRUE, !.cjs = TRUE, !.stop = TRUE, !.out = ReturnModuleExports(s)]

ScanReturnStatement(s, acc) ==
  IF s.ctx # "fn"
    THEN [acc EXCEPT !.wrap = TRUE, !.cjs = TRUE, !.stop = TRUE,
                     !.out = ReturnModuleExports(s)]
    ELSE acc

\* (!isMemberExpression(parent) || parent.computed)
NotStaticMember(s) == s.shape \in {"bare", "typeof", "computedStr"}

ScanModuleIdentifier(s, acc, data) ==
  IF /\ NotStaticMember(s)
     /\ s.shape # "typeof"
     /\ ~s.bound
     /\ ~data
    THEN [acc EXCEPT !.cjs = TRUE, !.wrap = TRUE, !.stop = TRUE]
    ELSE acc

\* The contexts in which the exports object is not used as a value:
\* the left of an assignment, or a member access with a static property.
SafeExportsContext(s) == s.shape \in {"assignLeft", "member", "memberAssign"}

ScanExportsObject(s, acc, data) ==
  IF ~s.bound
    THEN IF ~(SafeExportsContext(s) \/ data)
           THEN [acc EXCEPT !.cjs = TRUE, !.bail = TRUE, !.addSelf = TRUE]
           ELSE [acc EXCEPT !.cjs = TRUE]
    ELSE acc

ScanStmt(s, acc, data) ==
  CASE s.kind \in {"Import", "ExportDefault", "ExportNamed", "ExportAll"} ->
         ScanImportExport(s, acc)
    [] s.kind = "EvalCall" -> ScanCallExpression(s, acc)
    [] s.kind = "Return" -> ScanReturnStatement(s, acc)
    [] s.kind = "ModuleRef" -> ScanModuleIdentifier(s, acc, data)
    [] s.kind \in {"ExportsRef", "ModuleExports"} -> ScanExportsObject(s, acc, data)
    [] OTHER -> acc

ScanStart(m) ==
  [cjs |-> m.isCommonJS, es |-> m.isES6Module, bail |-> m.resolveExportsBailedOut,
   wrap |-> FALSE, stop |-> FALSE, addSelf |-> FALSE, out |-> <<>>, body |-> <<>>]

\* path.traverse({...}) over the statements from index i on, in tree order,
\* until a visitor stops the traversal.
RECURSIVE ScanFrom(_, _, _, _)
ScanFrom(b, i, acc, data) ==
  IF i > Len(b) THEN acc
  ELSE IF acc.stop THEN ScanFrom(b, i + 1, [acc EXCEPT !.body = Append(@, b[i])], data)
  ELSE LET r == ScanStmt(b[i], [acc EXCEPT !.out = b[i]], data)
       IN ScanFrom(b, i + 1, [r EXCEPT !.body = Append(@, r.out)], data)

\* The pre-scan of Program.enter with the defaulting to CommonJS that follows it.
PreScan(b, m, syms, data) ==
  LET r == ScanFrom(b, 1, ScanStart(m), data)
      dflt == ~r.cjs /\ ~r.es
  IN [isCommonJS |-> r.cjs \/ dflt,
      isES6Module |-> r.es,
      resolveExportsBailedOut |-> r.bail,
      shouldWrap |-> r.wrap,
      addSelf |-> r.addSelf,
      body |-> r.body,
      symbols |-> IF dflt THEN SymSet(syms, STAR, getName("exports", <<>>), FALSE)
                          ELSE syms]

\* scope.crawl(): the bindings of the program scope, its globals and the
\* reference paths of its bindings (at: the referencing statement; spec: the
\* reference is the local of an export specifier).
CrawlBindings(b) == BindsOf(b)

\* The references a statement makes: spec, the reference is the local of an
\* export specifier; prop, the property when the reference is the object of
\* a member access with a static property (<<>> otherwise).
Uses(s) ==
  {[name |-> n, spec |-> (s.kind = "ExportNamed" /\ s.shape = "spec"),
    prop |-> IF s.kind = "NsRef" /\ s.shape \in {"static", "string"} THEN s.key ELSE <<>>]
     : n \in s.refs}
  \cup {[name |-> n, spec |-> FALSE, prop |-> s.key]
          : n \in IF s.kind = "NsRef" /\ s.shape = "both" THEN s.refs ELSE {}}

CrawlReferences(b) ==
  UNION { {[name |-> u.name, at |-> i, spec |-> u.spec, prop |-> u.prop]
             : u \in {v \in Uses(b[i]) : v.name \in BindsOf(b)}}
          : i \in DOMAIN b }

Crawled(b) == [i \in DOMAIN b |-> [b[i] EXCEPT !.tracked = TRUE]]

CrawlGlobals(b) == RefsOf(b) \ BindsOf(b)

\* hoist: throw new Error('Asset does not have a babel AST')
RejectAST ==
  /\ pc = "start"
  /\ Unsupported(ast)
  /\ pc' = "error"
  /\ error' = "Asset does not have a babel AST"
  /\ UNCHANGED <<ast, astSet, input, isSource, progDirective, body, wrapped, esPreamble,
                 pos, sub, meta, symbols, deps, shouldWrap, cjsExportsReassigned,
                 hoistedImport, bindings, globals, references>>
  /\ UNCHANGED cliVars

ProgramEnter ==
  /\ pc = "start"
  /\ ~Unsupported(ast)
  /\ LET r == PreScan(body, meta, symbols, shouldWrap)
     IN /\ meta' = [isCommonJS |-> r.isCommonJS, isES6Module |-> r.isES6Module,
                    resolveExportsBailedOut |-> r.resolveExportsBailedOut]
        /\ symbols' = r.symbols
        /\ deps' = IF r.addSelf THEN addDependency(deps) ELSE deps
        /\ body' = r.body
        /\ shouldWrap' = r.shouldWrap
        /\ bindings' = CrawlBindings(body)
        /\ globals' = CrawlGlobals(body)
        /\ references' = CrawlReferences(body)
  /\ cjsExportsReassigned' = FALSE
  /\ pc' = "walk"
  /\ pos' = IF progDirective THEN 0 ELSE 1
  /\ sub' = IF progDirective THEN "inner" ELSE "enter"
  /\ UNCHANGED <<ast, astSet, error, input, isSource, progDirective, wrapped, esPreamble,
                 hoistedImport>>
  /\ UNCHANGED cliVars


(***************************************************************************)
(* Tree and scope edits                                                    *)
(***************************************************************************)
InsertAt(b, i, s) == SubSeq(b, 1, i - 1) \o <<s>> \o SubSeq(b, i, Len(b))

RemoveAt(b, i) == SubSeq(b, 1, i - 1) \o SubSeq(b, i + 1, Len(b))

\* The index a path keeps pointing at after an insertion at index k.
Shifted(j, k) == IF j # 0 /\ j >= k THEN j + 1 ELSE j

RenameIn(S, from, to) == IF from \in S THEN (S \ {from}) \cup {to} ELSE S

\* rename(scope, from, to): the declaration and every reference path of
\* the binding.
rename(b, from, to) ==
  [i \in DOMAIN b |->
     [b[i] EXCEPT !.binds = RenameIn(@, from, to),
                  !.refs = IF b[i].tracked THEN RenameIn(@, from, to) ELSE @]]

\* ... and binding.referencePaths follows the binding to its new name.
RenameReferences(rs, from, to) ==
  {[r EXCEPT !.name = IF @ = from THEN to ELSE @] : r \in rs}

\* scope.push({id}): a var declaration at the top of the program body.
PushedVar(name) == Fresh(Stmt("VarDecl", "pushed", "top", FALSE, "", <<>>, FALSE, {name}, {}))

ScopePush(b, name) == InsertAt(b, 1, PushedVar(name))

\* getExportsIdentifier(asset, scope)
getExportsIdentifier(wrap) ==
  IF wrap THEN EXPORTS ELSE getIdentifier("exports", <<>>)

\* ... which records the identifier as a global when it has no binding.
GlobalsWithExports(wrap, bs, gs) ==
  IF ~wrap /\ getIdentifier("exports", <<>>) \notin bs
    THEN gs \cup {getIdentifier("exports", <<>>)}
    ELSE gs

\* A choice of the identifier that does not look at cjsExportsReassigned.
getCJSExportsIdentifierUnflagged(wrap, reassigned) == getExportsIdentifier(wrap)

\* getCJSExportsIdentifier(asset, scope)
getCJSExportsIdentifier(wrap, reassigned) ==
  IF wrap THEN EXPORTS
  ELSE IF reassigned THEN getIdentifier("cjs_exports", <<>>)
  ELSE getExportsIdentifier(wrap)

(***************************************************************************)
(* The body walk                                                           *)
(***************************************************************************)
Visiting(kinds) ==
  /\ pc = "walk"
  /\ sub = "enter"
  /\ pos \in 1..Len(body)
  /\ body[pos].kind \in kinds

\* Continue the walk in newBody: into the function body of the statement at
\* index focus when it carries a directive, else at index next.
Continue(newBody, focus, next) ==
  /\ body' = newBody
  /\ IF focus \in DOMAIN newBody /\ newBody[focus].strict
       THEN pos' = focus /\ sub' = "inner"
       ELSE pos' = next /\ sub' = "enter"

\* A DirectiveLiteral handler that removes nothing.
KeepDirective(s) == s

\* DirectiveLiteral: path.parentPath.remove() for 'use strict'.
RemoveDirective(s) == [s EXCEPT !.strict = FALSE]

DirectiveLiteral ==
  /\ pc = "walk"
  /\ sub = "inner"
  /\ IF pos = 0
       THEN /\ progDirective' = FALSE
            /\ body' = body
       ELSE /\ body' = [body EXCEPT ![pos] = RemoveDirective(@)]
            /\ progDirective' = progDirective
  /\ pos' = pos + 1
  /\ sub' = "enter"
  /\ UNCHANGED references
  /\ UNCHANGED <<pc, ast, astSet, error, input, isSource, wrapped, esPreamble, meta,
                 symbols, deps,
                 shouldWrap, cjsExportsReassigned, hoistedImport, bindings, globals>>
  /\ UNCHANGED cliVars

\* Nodes no handler of the visitor changes.
NoHandler(s) ==
  \/ s.kind \in {"Expr", "VarDecl", "Return", "EvalCall", "Hoisted", "ParcelRequire",
                 "NsRef"}
  \/ s.kind = "ModuleRef" /\ s.shape = "bare"

VisitOther ==
  /\ pc = "walk"
  /\ sub = "enter"
  /\ pos \in 1..Len(body)
  /\ NoHandler(body[pos])
  /\ Continue(body, pos, pos + 1)
  /\ UNCHANGED references
  /\ UNCHANGED <<pc, ast, astSet, error, input, isSource, progDirective, wrapped,
                 esPreamble, meta, symbols,
                 deps, shouldWrap, cjsExportsReassigned, hoistedImport, bindings, globals>>
  /\ UNCHANGED cliVars

\* A MemberExpression handler that does not look at shouldWrap.
MemberExpressionUngated(s, wrap, bs) ==
  IF s.bound THEN [replaced |-> FALSE, star |-> FALSE, push |-> FALSE, out |-> s]
  ELSE IF s.kind = "ModuleExports"
    THEN [replaced |-> TRUE, star |-> TRUE,
          push |-> getExportsIdentifier(wrap) \notin bs,
          out |-> Inert(s.strict, {}, {getExportsIdentifier(wrap)})]
    ELSE [replaced |-> TRUE, star |-> FALSE, push |-> FALSE,
          out |-> Inert(s.strict, {}, {})]

\* MemberExpression: module.exports, module.id (module.hot, module.require and
\* module.bundle are replaced by literals in the same way).
MemberExpressionResult(s, wrap, bs) ==
  IF s.bound \/ wrap THEN [replaced |-> FALSE, star |-> FALSE, push |-> FALSE, out |-> s]
  ELSE IF s.kind = "ModuleExports"
    THEN [replaced |-> TRUE, star |-> TRUE,
          push |-> getExportsIdentifier(wrap) \notin bs,
          out |-> Inert(s.strict, {}, {getExportsIdentifier(wrap)})]
    ELSE [replaced |-> TRUE, star |-> FALSE, push |-> FALSE,
          out |-> Inert(s.strict, {}, {})]

MemberExpression ==
  /\ Visiting({"ModuleRef", "ModuleExports"})
  /\ \/ body[pos].kind = "ModuleRef" /\ body[pos].shape \in {"static", "computedStr"}
     \/ body[pos].kind = "ModuleExports" /\ body[pos].shape = "bare"
  /\ LET r == MemberExpressionResult(body[pos], shouldWrap, bindings)
         b1 == [body EXCEPT ![pos] = r.out]
         id == getExportsIdentifier(shouldWrap)
     IN /\ symbols' = IF r.star THEN SymSet(symbols, STAR, id, FALSE) ELSE symbols
        /\ globals' = IF r.star THEN GlobalsWithExports(shouldWrap, bindings, globals)
                                ELSE globals
        /\ IF r.push
             THEN /\ bindings' = bindings \cup {id}
                  /\ hoistedImport' = Shifted(hoistedImport, 1)
                  /\ Continue(ScopePush(b1, id), pos + 1, pos + 2)
             ELSE /\ bindings' = bindings
                  /\ hoistedImport' = hoistedImport
                  /\ Continue(b1, pos, pos + 1)
  /\ UNCHANGED references
  /\ UNCHANGED <<pc, ast, astSet, error, input, isSource, progDirective, wrapped,
                 esPreamble, meta, deps,
                 shouldWrap, cjsExportsReassigned>>
  /\ UNCHANGED cliVars

\* ReferencedIdentifier: a free exports reference that is not the object of
\* an assignment the AssignmentExpression handler has rewritten, and a free
\* global reference.
ReferencedIdentifier ==
  /\ Visiting({"ExportsRef", "GlobalRef"})
  /\ body[pos].shape \in {"bare", "member"}
  /\ LET s == body[pos]
         act == s.kind = "ExportsRef" /\ ~s.bound /\ ~shouldWrap
         glob == s.kind = "GlobalRef" /\ ~s.bound
         id == getCJSExportsIdentifier(shouldWrap, cjsExportsReassigned)
         push == act /\ cjsExportsReassigned /\ id \notin bindings
         b1 == IF act THEN [body EXCEPT ![pos] = Inert(s.strict, {}, {id})]
               ELSE IF glob THEN [body EXCEPT ![pos] = Inert(s.strict, {}, {PARCEL_GLOBAL})]
               ELSE body
     IN /\ meta' = IF act THEN [meta EXCEPT !.isCommonJS = TRUE] ELSE meta
        /\ globals' = IF act /\ ~cjsExportsReassigned
                        THEN GlobalsWithExports(shouldWrap, bindings, globals)
                        ELSE globals
        /\ IF push
             THEN /\ bindings' = bindings \cup {id}
                  /\ hoistedImport' = Shifted(hoistedImport, 1)
                  /\ Continue(ScopePush(b1, id), pos + 1, pos + 2)
             ELSE /\ bindings' = bindings
                  /\ hoistedImport' = hoistedImport
                  /\ Continue(b1, pos, pos + 1)
  /\ UNCHANGED references
  /\ UNCHANGED <<pc, ast, astSet, error, input, isSource, progDirective, wrapped,
                 esPreamble, symbols, deps,
                 shouldWrap, cjsExportsReassigned>>
  /\ UNCHANGED cliVars

\* UnaryExpression: typeof module -> "object".
UnaryExpression ==
  /\ Visiting({"ModuleRef"})
  /\ body[pos].shape = "typeof"
  /\ LET s == body[pos]
         b1 == IF ~s.bound /\ ~shouldWrap
                 THEN [body EXCEPT ![pos] = Inert(s.strict, {}, {})]
                 ELSE body
     IN Continue(b1, pos, pos + 1)
  /\ UNCHANGED references
  /\ UNCHANGED <<pc, ast, astSet, error, input, isSource, progDirective, wrapped,
                 esPreamble, meta, symbols,
                 deps, shouldWrap, cjsExportsReassigned, hoistedImport, bindings, globals>>
  /\ UNCHANGED cliVars


\* A handler that leaves the symbol of a CommonJS export to the "*" entry.
StaticExportSymbolsByStar(syms, name, identifier, first) == syms

\* The symbol of the first assignment to exports.name: "default" and "*" are
\* left to the "*" symbol.
StaticExportSymbols(syms, name, identifier, first) ==
  IF first /\ name \notin {DEFAULT, STAR}
    THEN SymSet(syms, name, identifier, FALSE)
    ELSE syms

\* AssignmentExpression: exports = rhs, exports.K = rhs, module.exports.K = rhs.
AssignmentExpression ==
  /\ Visiting({"ExportsRef", "ModuleExports"})
  /\ body[pos].shape \in {"assignLeft", "memberAssign"}
  /\ LET s == body[pos]
         act == ~shouldWrap /\ ~s.bound
         reassign == act /\ s.shape = "assignLeft"
         static == act /\ s.shape = "memberAssign"
         cjsId == getCJSExportsIdentifier(shouldWrap, TRUE)
         identifier == getExportIdentifier(s.key)
         first == identifier \notin bindings
         inProgram == s.ctx = "top"
         \* the declaration or assignment inserted before the statement
         before == IF first /\ inProgram
                     THEN Stmt("VarDecl", "export", "top", FALSE, "", s.key, s.strict,
                               {identifier}, {})
                     ELSE Inert(s.strict, {}, {identifier})
         after == Inert(FALSE, {}, {getExportsIdentifier(shouldWrap), identifier})
         b1 == InsertAt([body EXCEPT ![pos] = after], pos, before)
     IN /\ cjsExportsReassigned' = (cjsExportsReassigned \/ reassign)
        /\ meta' = IF act THEN [meta EXCEPT !.isCommonJS = TRUE] ELSE meta
        /\ symbols' = IF static THEN StaticExportSymbols(symbols, s.key, identifier, first)
                                ELSE symbols
        /\ globals' = IF static THEN GlobalsWithExports(shouldWrap, bindings, globals)
                                ELSE globals
        /\ CASE reassign ->
                  IF cjsId \notin bindings
                    THEN /\ bindings' = bindings \cup {cjsId}
                         /\ hoistedImport' = Shifted(hoistedImport, 1)
                         /\ Continue(ScopePush([body EXCEPT ![pos] = Inert(s.strict, {}, {cjsId})],
                                               cjsId), pos + 1, pos + 2)
                    ELSE /\ bindings' = bindings
                         /\ hoistedImport' = hoistedImport
                         /\ Continue([body EXCEPT ![pos] = Inert(s.strict, {}, {cjsId})],
                                     pos, pos + 1)
             [] static /\ first /\ ~inProgram ->
                  /\ bindings' = bindings \cup {identifier}
                  /\ hoistedImport' = Shifted(Shifted(hoistedImport, pos), 1)
                  /\ Continue(ScopePush(b1, identifier), pos + 1, pos + 3)
             [] static /\ ~(first /\ ~inProgram) ->
                  /\ bindings' = IF first THEN bindings \cup {identifier} ELSE bindings
                  /\ hoistedImport' = Shifted(hoistedImport, pos)
                  /\ Continue(b1, pos, pos + 2)
             [] OTHER ->
                  /\ UNCHANGED <<bindings, hoistedImport>>
                  /\ Continue(body, pos, pos + 1)
  /\ UNCHANGED references
  /\ UNCHANGED <<pc, ast, astSet, error, input, isSource, progDirective, wrapped,
                 esPreamble, deps, shouldWrap>>
  /\ UNCHANGED cliVars

Only(S) == CHOOSE x \in S : TRUE

Range(q) == {q[i] : i \in DOMAIN q}

\* binding.referencePaths of a program-scope binding.
ReferencePaths(rs, name) == {r \in rs : r.name = name}

\* REQUIRE_CALL_TEMPLATE: $parcel$require(ID, SOURCE), with ID asset.id (key).
ParcelRequireCall(s) ==
  Fresh(Stmt("ParcelRequire", "call", s.ctx, FALSE, s.src, <<AssetId>>, s.strict,
             {}, {PARCEL_REQUIRE}))

\* dep.symbols.set(name, getName(asset, 'importAsync', dep.id, name), loc)
\* for each member access.
RECURSIVE RecordAsync(_, _, _)
RecordAsync(tab, id, names) ==
  IF names = {} THEN tab
  ELSE LET n == Only(names)
       IN RecordAsync(SymSet(tab, n, getName("importAsync", <<id, "$">> \o n), FALSE),
                      id, names \ {n})

\* The static analysis of a dynamic import: the members it accesses, when
\* they are known (known: memberAccesses != null).
MemberAccesses(s, wrap, rs) ==
  IF s.shape = "pattern" THEN [known |-> TRUE, names |-> {s.key}]
  ELSE IF /\ s.shape \in {"binding", "bindingMutable"}
          /\ ~wrap
          /\ s.shape # "bindingMutable"
          /\ \A r \in ReferencePaths(rs, Only(s.binds)) : r.prop # <<>>
    THEN [known |-> TRUE, names |-> {r.prop : r \in ReferencePaths(rs, Only(s.binds))}]
    ELSE [known |-> FALSE, names |-> {}]

\* A CallExpression handler that marks the asset CommonJS before it looks
\* for the dependency.
CallExpressionMarksFirst(s, ds, wrap, rs) ==
  IF s.bound THEN [replaced |-> FALSE, cjs |-> FALSE, deps |-> ds, out |-> s]
  ELSE IF s.src \notin DOMAIN ds
    THEN [replaced |-> FALSE, cjs |-> TRUE, deps |-> ds, out |-> s]
    ELSE [replaced |-> TRUE, cjs |-> TRUE,
          deps |-> [ds EXCEPT ![s.src].symbols =
                      SymSet(@, STAR, getName("require", <<s.src>>), FALSE)],
          out |-> ParcelRequireCall(s)]

\* A test that takes only a call in a function for a nested one.
InFunction(s) == s.ctx = "fn"

\* !path.getStatementParent().parentPath.isProgram() ||
\* path.findParent(p => p.isConditionalExpression() || p.isLogicalExpression()
\*                      || p.isFunction())
NotTopLevel(s) == s.ctx \in {"fn", "block"} \/ s.ctx \in {"cond", "fn"}

\* A static analysis that does not look at shouldWrap.
CallExpressionTrustsWrapped(s, ds, wrap, rs) ==
  IF s.bound \/ s.src \notin DOMAIN ds
    THEN [replaced |-> FALSE, cjs |-> FALSE, deps |-> ds, out |-> s]
    ELSE
      LET dep == ds[s.src]
          access == IF dep.isAsync THEN MemberAccesses(s, FALSE, rs)
                                   ELSE [known |-> FALSE, names |-> {}]
          syms == IF access.known
                    THEN RecordAsync(dep.symbols, s.src, access.names)
                    ELSE SymSet(dep.symbols, STAR, getName("require", <<s.src>>), FALSE)
          m == [dep.meta EXCEPT !.shouldWrap = @ \/ NotTopLevel(s),
                                !.isCommonJS = @ \/ ~access.known]
      IN [replaced |-> TRUE,
          cjs |-> ~dep.isAsync,
          deps |-> [ds EXCEPT ![s.src] = [dep EXCEPT !.meta = m, !.symbols = syms]],
          out |-> ParcelRequireCall(s)]

\* CallExpression: require(src) with one string-literal argument.
CallExpressionResult(s, ds, wrap, rs) ==
  IF s.bound \/ s.src \notin DOMAIN ds
    THEN [replaced |-> FALSE, cjs |-> FALSE, deps |-> ds, out |-> s]
    ELSE
      LET dep == ds[s.src]
          nested == NotTopLevel(s)
          access == IF dep.isAsync THEN MemberAccesses(s, wrap, rs)
                                   ELSE [known |-> FALSE, names |-> {}]
          syms == IF access.known
                    THEN RecordAsync(dep.symbols, s.src, access.names)
                    ELSE SymSet(dep.symbols, STAR, getName("require", <<s.src>>), FALSE)
          m == [dep.meta EXCEPT !.shouldWrap = @ \/ nested, !.isCommonJS = @ \/ ~access.known]
      IN [replaced |-> TRUE,
          cjs |-> ~dep.isAsync,
          deps |-> [ds EXCEPT ![s.src] = [dep EXCEPT !.meta = m, !.symbols = syms]],
          out |-> ParcelRequireCall(s)]

CallExpression ==
  /\ Visiting({"Require"})
  /\ LET r == CallExpressionResult(body[pos], deps, shouldWrap, references)
     IN /\ meta' = IF r.cjs THEN [meta EXCEPT !.isCommonJS = TRUE] ELSE meta
        /\ deps' = r.deps
        /\ Continue([body EXCEPT ![pos] = r.out], pos, pos + 1)
  /\ UNCHANGED references
  /\ UNCHANGED <<pc, ast, astSet, error, input, isSource, progDirective, wrapped,
                 esPreamble, symbols,
                 shouldWrap, cjsExportsReassigned, hoistedImport, bindings, globals>>
  /\ UNCHANGED cliVars


(***************************************************************************)
(* Imports and exports                                                     *)
(***************************************************************************)
\* binding.constant
IsConstant(b, name) ==
  ~\E i \in DOMAIN b :
     name \in b[i].binds /\ b[i].shape \in {"mutable", "bindingMutable"}

\* $parcel$require(ID, SOURCE); as a statement of its own (addImport), and
\* $parcel$exportWildcard(OLD_NAME, $parcel$require(ID, SOURCE));
HoistedRequire(src) ==
  Fresh(Stmt("Hoisted", "require", "top", FALSE, src, <<>>, FALSE, {}, {PARCEL_REQUIRE}))

HoistedWildcard(src, exportsId) ==
  Fresh(Stmt("Hoisted", "wildcard", "top", FALSE, src, <<>>, FALSE, {},
             {PARCEL_EXPORT_WILDCARD, PARCEL_REQUIRE, exportsId}))

\* $parcel$export(EXPORTS, NAME, function(){return LOCAL;});
ExportCall(exportsId, name, local) ==
  Fresh(Stmt("Expr", "export", "top", FALSE, "", name, FALSE, {},
             {PARCEL_EXPORT, exportsId, local}))

\* Every hoisted statement unshifted to the top of the body.
HoistToTop(h) == 1

\* Where addImport and ExportAllDeclaration put the hoisted statement: after
\* the last hoisted one, else at the top of the body.
HoistIndex(h) == IF h # 0 THEN h + 1 ELSE 1

addImport(b, h, src) == InsertAt(b, HoistIndex(h), HoistedRequire(src))

\* hasImport(asset, id) and hasExport(asset, id)
hasImport(ds, id) == \E d \in DOMAIN ds : hasLocalSymbol(ds[d].symbols, id)

hasExport(syms, id) == hasLocalSymbol(syms, id)

\* The local name a dependency symbol gets: the one already recorded, if any.
ReusedLocal(tab, imported, fresh) ==
  IF SymHas(tab, imported) THEN SymGet(tab, imported).local ELSE fresh

\* A handler that records the symbol without looking whether the dependency
\* was found.
RecordImportUnguarded(ds, src, imported, id, isWeak, skip) ==
  IF skip THEN ds
  ELSE [d \in DOMAIN ds \cup {src} |->
          IF d = src
            THEN [(IF d \in DOMAIN ds THEN ds[d] ELSE Dep(FALSE))
                    EXCEPT !.symbols = SymSet(@, imported, id, isWeak)]
            ELSE ds[d]]

\* if (dep) { ... dep.symbols.set(imported, id.name, loc, isWeak) }
RecordImport(ds, src, imported, id, isWeak, skip) ==
  IF src \in DOMAIN ds /\ ~skip
    THEN [ds EXCEPT ![src].symbols = SymSet(@, imported, id, isWeak)]
    ELSE ds

\* The namespace specifier: the references to the namespace that are static
\* member accesses, and whether another reference makes the handler bail out.
NamespaceMembers(rs, local) == {r.prop : r \in ReferencePaths(rs, local)} \ {<<>>}

NamespaceBailedOut(rs, local) == \E r \in ReferencePaths(rs, local) : r.prop = <<>>

\* getIdentifier(asset, 'import', specifier.local.name, imported), or the
\* local the dependency already has for imported.
MemberLocal(tab, local, imported) ==
  ReusedLocal(tab, imported, getIdentifier("import", local \o <<"$">> \o imported))

\* dep.symbols.set(imported, id.name, loc) for each member access.
RECURSIVE RecordMembers(_, _, _)
RecordMembers(tab, local, keys) ==
  IF keys = {} THEN tab
  ELSE LET k == Only(keys)
       IN RecordMembers(SymSet(tab, k, MemberLocal(tab, local, k), FALSE), local, keys \ {k})

\* A namespace import that records "*" whatever the references are.
RecordNamespaceAlways(tab, rs, local) ==
  LET members == RecordMembers(tab, local, NamespaceMembers(rs, local))
  IN SymSet(members, STAR, ReusedLocal(members, STAR, getIdentifier("import", local)), FALSE)

\* ... and dep.symbols.set('*', id.name, loc) when the handler bailed out.
RecordNamespace(tab, rs, local) ==
  LET members == RecordMembers(tab, local, NamespaceMembers(rs, local))
  IN IF NamespaceBailedOut(rs, local)
       THEN SymSet(members, STAR,
                   ReusedLocal(members, STAR, getIdentifier("import", local)), FALSE)
       ELSE members

\* p.parentPath.replaceWith(id) for each member access.
ReplaceMembers(b, tab, local) ==
  [i \in DOMAIN b |->
     IF b[i].kind = "NsRef" /\ local \in b[i].refs /\ b[i].shape # "value"
       THEN IF b[i].shape = "both"
              THEN [b[i] EXCEPT !.shape = "value", !.key = <<>>,
                                !.refs = @ \cup {MemberLocal(tab, local, b[i].key)}]
              ELSE Inert(b[i].strict, {}, {MemberLocal(tab, local, b[i].key)})
       ELSE b[i]]

\* dereferenceIdentifier(node, p.scope) for each member access.
DereferenceMembers(rs, local) == {r \in rs : r.name # local \/ r.prop = <<>>}

ImportDeclaration ==
  /\ Visiting({"Import"})
  /\ LET s == body[pos]
         local == Only(s.binds)
         known == s.src \in DOMAIN deps
         refPaths == ReferencePaths(references, local)
         skip == refPaths = {} /\ ~isSource
         isWeak == /\ Cardinality(refPaths) = 1
                   /\ \A r \in refPaths : r.spec
         namespace == s.shape = "namespace" /\ known /\ ~skip
         nsSymbols == RecordNamespace(deps[s.src].symbols, references, local)
         id == IF namespace
                 THEN IF NamespaceBailedOut(references, local)
                        THEN SymGet(nsSymbols, STAR).local
                        ELSE getIdentifier("import", local)
               ELSE IF known /\ ~skip
                 THEN ReusedLocal(deps[s.src].symbols, s.key, getIdentifier("import", local))
                 ELSE getIdentifier("import", local)
         b0 == IF namespace THEN ReplaceMembers(body, deps[s.src].symbols, local) ELSE body
         rs0 == IF namespace THEN DereferenceMembers(references, local) ELSE references
         b1 == IF skip THEN b0 ELSE rename(b0, local, id)
         b2 == addImport(b1, hoistedImport, s.src)
     IN /\ deps' = IF namespace
                     THEN [deps EXCEPT ![s.src].symbols = nsSymbols]
                     ELSE RecordImport(deps, s.src, s.key, id, isWeak,
                                       skip \/ s.shape = "namespace")
        /\ references' = IF skip THEN rs0 ELSE RenameReferences(rs0, local, id)
        /\ bindings' = bindings \ {local, id}
        /\ hoistedImport' = HoistIndex(hoistedImport)
        /\ Continue(RemoveAt(b2, pos + 1), 0, pos + 1)
  /\ UNCHANGED <<pc, ast, astSet, error, input, isSource, progDirective, wrapped,
                 esPreamble, meta, symbols,
                 shouldWrap, cjsExportsReassigned, globals>>
  /\ UNCHANGED cliVars

\* addExport(asset, path, local, exported): the export identifier chosen.
ExportLocal(ds, syms, local, exported) ==
  IF hasImport(ds, local) \/ hasExport(syms, local)
    THEN local
    ELSE getExportIdentifier(exported)

\* The export declaration left in place, its declaration renamed.
KeepExportDeclaration(s, identifier) == [s EXCEPT !.binds = {identifier}]

\* path.replaceWith(declaration): the bare declaration, under its new name.
ReplaceWithDeclaration(s, identifier) ==
  Stmt("VarDecl", "const", "top", FALSE, "", <<>>, s.strict, {identifier}, {})

ExportNamedDeclaration ==
  /\ Visiting({"ExportNamed"})
  /\ LET s == body[pos]
         exportsId == getExportsIdentifier(shouldWrap)
     IN /\ globals' = GlobalsWithExports(shouldWrap, bindings, globals)
        /\ CASE s.shape = "from" ->
                  LET known == s.src \in DOMAIN deps
                      id == IF known
                              THEN ReusedLocal(deps[s.src].symbols, s.key,
                                               getIdentifier("import", s.key))
                              ELSE getIdentifier("import", s.key)
                      b1 == InsertAt(body, pos + 1, ExportCall(exportsId, s.key, id))
                      b2 == addImport(b1, hoistedImport, s.src)
                  IN /\ deps' = IF known
                                  THEN [deps EXCEPT ![s.src].symbols = SymSet(@, s.key, id, TRUE)]
                                  ELSE deps
                     /\ symbols' = SymSet(symbols, s.key, id, FALSE)
                     /\ hoistedImport' = HoistIndex(hoistedImport)
                     /\ bindings' = bindings
                     /\ references' = references
                     /\ Continue(RemoveAt(b2, pos + 1), 0, pos + 2)
             [] s.shape \in {"decl", "spec"} ->
                  LET local == IF s.shape = "decl" THEN Only(s.binds) ELSE Only(s.refs)
                      identifier == ExportLocal(deps, symbols, local, s.key)
                      b1 == rename(body, local, identifier)
                      decl == ReplaceWithDeclaration(s, identifier)
                      call == ExportCall(exportsId, s.key, identifier)
                  IN /\ symbols' = IF SymHas(symbols, s.key) THEN symbols
                                   ELSE SymSet(symbols, s.key, identifier, FALSE)
                     /\ bindings' = RenameIn(bindings, local, identifier)
                     /\ references' = RenameReferences(references, local, identifier)
                     /\ deps' = deps
                     /\ hoistedImport' = hoistedImport
                     /\ IF s.shape = "decl"
                          THEN Continue(InsertAt([b1 EXCEPT ![pos] = decl], pos + 1, call),
                                        pos, pos + 2)
                          ELSE Continue([b1 EXCEPT ![pos] = call], pos, pos + 1)
  /\ UNCHANGED <<pc, ast, astSet, error, input, isSource, progDirective, wrapped,
                 esPreamble, meta,
                 shouldWrap, cjsExportsReassigned>>
  /\ UNCHANGED cliVars

ExportAllDeclaration ==
  /\ Visiting({"ExportAll"})
  /\ LET s == body[pos]
         exportsId == getExportsIdentifier(shouldWrap)
         b1 == RemoveAt(body, pos)
     IN /\ deps' = IF s.src \in DOMAIN deps
                     THEN [deps EXCEPT ![s.src].symbols = SymSet(@, STAR, STAR, TRUE)]
                     ELSE deps
        /\ globals' = GlobalsWithExports(shouldWrap, bindings, globals)
        /\ hoistedImport' = HoistIndex(hoistedImport)
        /\ Continue(InsertAt(b1, HoistIndex(hoistedImport), HoistedWildcard(s.src, exportsId)),
                    0, pos + 1)
  /\ UNCHANGED references
  /\ UNCHANGED <<pc, ast, astSet, error, input, isSource, progDirective, wrapped,
                 esPreamble, meta, symbols,
                 shouldWrap, cjsExportsReassigned, bindings>>
  /\ UNCHANGED cliVars


\* safeRename(path, asset, from, to): a constant binding is renamed; for any
\* other, var to = from; is inserted after the path.
SafeRenameDeclares(b, from, to) == from # to /\ ~IsConstant(b, from)

safeRename(b, from, to) ==
  IF from # to /\ IsConstant(b, from) THEN rename(b, from, to) ELSE b

\* ... with binding.reference(decl.get('declarations.0.init')) for the alias.
safeRenameReferences(b, rs, from, to) ==
  IF from = to THEN rs
  ELSE IF IsConstant(b, from) THEN RenameReferences(rs, from, to)
  ELSE rs \cup {[name |-> from, at |-> 0, spec |-> FALSE, prop |-> <<>>]}

ExportDefaultDeclaration ==
  /\ Visiting({"ExportDefault"})
  /\ LET s == body[pos]
         exportsId == getExportsIdentifier(shouldWrap)
         hasName == s.shape \in {"named", "ident"}
         name == IF s.shape = "named" THEN Only(s.binds)
                 ELSE IF s.shape = "ident" THEN Only(s.refs) ELSE <<>>
         identifier == IF hasName /\ hasExport(symbols, name)
                         THEN name
                         ELSE getExportIdentifier(DEFAULT)
         call == ExportCall(exportsId, DEFAULT, identifier)
         byName == s.shape = "named" \/ (s.shape = "ident" /\ name \in bindings)
         declares == byName /\ SafeRenameDeclares(body, name, identifier)
         alias == Stmt("VarDecl", "const", "top", FALSE, "", <<>>, FALSE, {identifier}, {name})
         b1 == InsertAt(body, pos + 1, call)
         b2 == IF declares THEN InsertAt(b1, pos + 1, alias) ELSE b1
         b3 == IF byName THEN safeRename(b2, name, identifier) ELSE b2
         value == Stmt("VarDecl", "const", "top", FALSE, "", <<>>, s.strict,
                       {identifier}, s.refs)
         extra == IF declares THEN 1 ELSE 0
     IN /\ globals' = GlobalsWithExports(shouldWrap, bindings, globals)
        /\ references' = IF byName
                           THEN safeRenameReferences(body, references, name, identifier)
                           ELSE references
        /\ symbols' = IF SymHas(symbols, DEFAULT) THEN symbols
                      ELSE SymSet(symbols, DEFAULT, identifier, FALSE)
        /\ CASE s.shape = "ident" /\ byName ->
                  /\ bindings' = IF declares THEN bindings \cup {identifier}
                                 ELSE RenameIn(bindings, name, identifier)
                  /\ Continue(RemoveAt(b3, pos), 0, pos + 1 + extra)
             [] ~byName ->
                  /\ bindings' = bindings \cup {identifier}
                  /\ Continue([b1 EXCEPT ![pos] = value], pos, pos + 2)
             [] s.shape = "named" ->
                  /\ bindings' = IF declares THEN bindings \cup {identifier}
                                 ELSE RenameIn(bindings, name, identifier)
                  /\ Continue([b3 EXCEPT ![pos] = Inert(s.strict, b3[pos].binds, {})],
                              pos, pos + 2 + extra)
  /\ UNCHANGED <<pc, ast, astSet, error, input, isSource, progDirective, wrapped,
                 esPreamble, meta, deps,
                 shouldWrap, cjsExportsReassigned, hoistedImport>>
  /\ UNCHANGED cliVars

(***************************************************************************)
(* Program.exit                                                            *)
(***************************************************************************)
\* Names Program.exit leaves alone: !name.startsWith(t.toIdentifier('$' + asset.id))
KeepsName(name) == StartsWith(name, AssetPrefix)

\* for (let name in scope.bindings) rename(scope, name, getName(asset, 'var', name))
RECURSIVE RenameTopLevel(_, _)
RenameTopLevel(b, names) ==
  IF names = {} THEN b
  ELSE LET n == Only(names)
       IN RenameTopLevel(IF KeepsName(n) THEN b ELSE rename(b, n, getName("var", n)),
                         names \ {n})

\* The wrapped branch without its last assignment.
WrapMetaKeepsES6(m) == [m EXCEPT !.isCommonJS = TRUE]

\* The wrapped branch: the flags and the '*' symbol it leaves.
WrapMeta(m) == [m EXCEPT !.isCommonJS = TRUE, !.isES6Module = FALSE]

WrapSymbols(syms) == SymSet(syms, STAR, getIdentifier("exports", <<>>), FALSE)

\* exports.__esModule = true;
EsModuleStmt == Inert(FALSE, {}, {EXPORTS})

\* The non-wrapped branch without asset.symbols.set('*', ...).
ExitSymbolsNoStar(m, syms) ==
  IF m.isCommonJS /\ m.resolveExportsBailedOut THEN NoSymbols ELSE syms

\* The non-wrapped branch without the loop over asset.symbols.exportSymbols().
ExitSymbolsKeepsNames(m, syms) ==
  IF m.isCommonJS THEN SymSet(syms, STAR, getIdentifier("exports", <<>>), FALSE) ELSE syms

\* The non-wrapped branch: the symbols of a CommonJS module.
ExitSymbols(m, syms) ==
  IF m.isCommonJS
    THEN SymSet(IF m.resolveExportsBailedOut THEN NoSymbols ELSE syms,
                STAR, getIdentifier("exports", <<>>), FALSE)
    ELSE syms

ProgramExit ==
  /\ pc = "walk"
  /\ sub = "enter"
  /\ pos > Len(body)
  /\ LET exportsIdentifier == getIdentifier("exports", <<>>)
     IN IF shouldWrap
          THEN /\ esPreamble' = meta.isES6Module
               /\ body' = IF meta.isES6Module THEN InsertAt(body, 1, EsModuleStmt) ELSE body
               /\ wrapped' = TRUE
               /\ symbols' = WrapSymbols(symbols)
               /\ meta' = WrapMeta(meta)
               /\ hoistedImport' = IF meta.isES6Module THEN Shifted(hoistedImport, 1)
                                                        ELSE hoistedImport
               /\ UNCHANGED <<bindings, globals, references>>
          ELSE LET b1 == RenameTopLevel(Crawled(body), CrawlBindings(body))
                   declare == /\ exportsIdentifier \in CrawlGlobals(b1)
                              /\ exportsIdentifier \notin CrawlBindings(b1)
                   b2 == IF declare THEN ScopePush(b1, exportsIdentifier) ELSE b1
               IN /\ body' = b2
                  /\ bindings' = CrawlBindings(b2)
                  /\ globals' = CrawlGlobals(b1)
                  /\ references' = CrawlReferences(b2)
                  /\ hoistedImport' = IF declare THEN Shifted(hoistedImport, 1)
                                                 ELSE hoistedImport
                  /\ symbols' = ExitSymbols(meta, symbols)
                  /\ UNCHANGED <<wrapped, esPreamble, meta>>
  /\ pc' = "done"
  /\ astSet' = TRUE
  /\ UNCHANGED <<ast, error, input, isSource, progDirective, pos, sub, deps, shouldWrap,
                 cjsExportsReassigned>>
  /\ UNCHANGED cliVars

Next ==
  \/ RejectAST
  \/ ProgramEnter
  \/ DirectiveLiteral
  \/ VisitOther
  \/ MemberExpression
  \/ ReferencedIdentifier
  \/ UnaryExpression
  \/ AssignmentExpression
  \/ CallExpression
  \/ ImportDeclaration
  \/ ExportDefaultDeclaration
  \/ ExportNamedDeclaration
  \/ ExportAllDeclaration
  \/ ProgramExit

Spec == Init /\ [][Next]_vars

(***************************************************************************)
(* Modules of imports, re-exports and uses of one imported name            *)
(***************************************************************************)
\* import {x} from "a";  export {x} from "a";  export {x as y};  g(x);
ReexportConstructs ==
  { Stmt("Import", "named", "top", FALSE, "a", NX, FALSE, {NX}, {}),
    Stmt("ExportNamed", "from", "top", FALSE, "a", NX, FALSE, {}, {}),
    Stmt("ExportNamed", "spec", "top", FALSE, "", NY, FALSE, {}, {NX}),
    Stmt("Expr", "", "top", FALSE, "", <<>>, FALSE, {}, {NX}) }

ReexportPrograms ==
  { b \in UNION {[1..n -> ReexportConstructs] : n \in 0..MaxReexports} : ValidProgram(b) }

InitReexports ==
  /\ pc = "start"
  /\ ast = BabelAST
  /\ astSet = FALSE
  /\ error = ""
  /\ input \in ReexportPrograms
  /\ isSource \in BOOLEAN
  /\ progDirective = FALSE
  /\ body = input
  /\ wrapped = FALSE
  /\ esPreamble = FALSE
  /\ pos = 0
  /\ sub = "enter"
  /\ meta = [isCommonJS |-> FALSE, isES6Module |-> FALSE, resolveExportsBailedOut |-> FALSE]
  /\ symbols = NoSymbols
  /\ deps = InitialDeps
  /\ shouldWrap = FALSE
  /\ cjsExportsReassigned = FALSE
  /\ hoistedImport = 0
  /\ bindings = {}
  /\ globals = {}
  /\ references = {}
  /\ CliIdle

NextReexports ==
  \/ ProgramEnter
  \/ VisitOther
  \/ ImportDeclaration
  \/ ExportNamedDeclaration
  \/ ProgramExit

SpecReexports == InitReexports /\ [][NextReexports]_vars

(***************************************************************************)
(* cli.js: run() and its exit()                                            *)
(***************************************************************************)
\* hoist is not running.
HoistIdle ==
  /\ pc = "start"
  /\ ast = BabelAST
  /\ astSet = FALSE
  /\ error = ""
  /\ input = <<>>
  /\ isSource = TRUE
  /\ progDirective = FALSE
  /\ body = <<>>
  /\ wrapped = FALSE
  /\ esPreamble = FALSE
  /\ pos = 0
  /\ sub = "enter"
  /\ meta = [isCommonJS |-> FALSE, isES6Module |-> FALSE, resolveExportsBailedOut |-> FALSE]
  /\ symbols = NoSymbols
  /\ deps = InitialDeps
  /\ shouldWrap = FALSE
  /\ cjsExportsReassigned = FALSE
  /\ hoistedImport = 0
  /\ bindings = {}
  /\ globals = {}
  /\ references = {}

\* const SIGINT_EXIT_CODE = 130; exit codes are written as strings, a signal
\* listener being called with the name of the signal.
SIGINT_EXIT_CODE == "130"

\* run(entries, command) is called: the command and the terminal.
InitCli ==
  /\ HoistIdle
  /\ cliPc = "start"
  /\ isWatching \in BOOLEAN
  /\ isTTY \in BOOLEAN
  /\ watchForStdin \in BOOLEAN
  /\ isExiting = FALSE
  /\ unsubscribe = FALSE
  /\ isProfiling = FALSE
  /\ isRaw = FALSE
  /\ pending = <<>>
  /\ unsubscribed = 0
  /\ stopped = 0
  /\ disposed = 0
  /\ exited = <<>>
  /\ terminated = FALSE
  /\ requests = 0
  /\ firstCode = "none"

\* An exit() without its isExiting test.
ExitUnguarded(exiting) == FALSE

\* if (isExiting) return;
ExitGuard(exiting) == exiting

\* The end of exit(): setRawMode(false); disposable.dispose();
\* process.exit(exitCode).
Shutdown(exitCode) ==
  /\ isRaw' = FALSE
  /\ disposed' = disposed + 1
  /\ exited' = Append(exited, exitCode)
  /\ terminated' = TRUE

\* exit(exitCode) up to its first await, or to its end when it awaits
\* nothing.
exit(exitCode) ==
  /\ firstCode' = IF firstCode = "none" THEN exitCode ELSE firstCode
  /\ IF ExitGuard(isExiting)
       THEN UNCHANGED <<isExiting, pending, unsubscribed, stopped, isRaw, disposed, exited,
                        terminated>>
       ELSE /\ isExiting' = TRUE
            /\ IF unsubscribe
                 THEN /\ unsubscribed' = unsubscribed + 1
                      /\ pending' = Append(pending, exitCode)
                      /\ UNCHANGED <<stopped, isRaw, disposed, exited, terminated>>
                 ELSE IF isProfiling
                   THEN /\ stopped' = stopped + 1
                        /\ pending' = Append(pending, exitCode)
                        /\ UNCHANGED <<unsubscribed, isRaw, disposed, exited, terminated>>
                   ELSE /\ Shutdown(exitCode)
                        /\ UNCHANGED <<pending, unsubscribed, stopped>>

\* run() up to its first await: raw mode and the keypress listener on a
\* terminal, then parcel.watch() or parcel.run().
RunStart ==
  /\ cliPc = "start"
  /\ isRaw' = isTTY
  /\ cliPc' = IF isWatching THEN "watch" ELSE "build"
  /\ UNCHANGED <<isWatching, isTTY, watchForStdin, isExiting, unsubscribe, isProfiling,
                 pending, unsubscribed, stopped, disposed, exited, terminated, requests,
                 firstCode>>
  /\ UNCHANGED vars

\* ({unsubscribe} = await parcel.watch(...)), then the stdin and signal
\* listeners.
WatchStarted ==
  /\ cliPc = "watch"
  /\ ~terminated
  /\ unsubscribe' = TRUE
  /\ cliPc' = "watching"
  /\ UNCHANGED <<isWatching, isTTY, watchForStdin, isExiting, isProfiling, isRaw, pending,
                 unsubscribed, stopped, disposed, exited, terminated, requests, firstCode>>
  /\ UNCHANGED vars

\* keypress ctrl-c: exit(isWatching ? 0 : SIGINT_EXIT_CODE)
KeypressCtrlC ==
  /\ isTTY
  /\ cliPc # "start"
  /\ ~terminated
  /\ requests < MaxRequests
  /\ requests' = requests + 1
  /\ exit(IF isWatching THEN "0" ELSE SIGINT_EXIT_CODE)
  /\ UNCHANGED <<cliPc, isWatching, isTTY, watchForStdin, unsubscribe, isProfiling>>
  /\ UNCHANGED vars

\* keypress ctrl-e: parcel.stopProfiling() or parcel.startProfiling()
KeypressCtrlE ==
  /\ isTTY
  /\ cliPc # "start"
  /\ ~terminated
  /\ isProfiling' = ~isProfiling
  /\ UNCHANGED <<cliPc, isWatching, isTTY, watchForStdin, isExiting, unsubscribe, isRaw,
                 pending, unsubscribed, stopped, disposed, exited, terminated, requests,
                 firstCode>>
  /\ UNCHANGED vars

\* process.on('SIGINT', exit); process.on('SIGTERM', exit): the listener is
\* called with the name of the signal.
Signal ==
  /\ cliPc = "watching"
  /\ ~terminated
  /\ requests < MaxRequests
  /\ requests' = requests + 1
  /\ \E signal \in {"SIGINT", "SIGTERM"} : exit(signal)
  /\ UNCHANGED <<cliPc, isWatching, isTTY, watchForStdin, unsubscribe, isProfiling>>
  /\ UNCHANGED vars

\* process.stdin.on('end', ...): exit()
StdinEnd ==
  /\ cliPc = "watching"
  /\ watchForStdin
  /\ ~terminated
  /\ requests < MaxRequests
  /\ requests' = requests + 1
  /\ exit("0")
  /\ UNCHANGED <<cliPc, isWatching, isTTY, watchForStdin, unsubscribe, isProfiling>>
  /\ UNCHANGED vars

\* await parcel.run() returns: await exit()
BuildSucceeds ==
  /\ cliPc = "build"
  /\ ~terminated
  /\ exit("0")
  /\ cliPc' = IF isExiting THEN "returned" ELSE "awaitExit"
  /\ UNCHANGED <<isWatching, isTTY, watchForStdin, unsubscribe, isProfiling, requests>>
  /\ UNCHANGED vars

\* await parcel.run() throws: await logUncaughtError(err)
BuildFails ==
  /\ cliPc = "build"
  /\ ~terminated
  /\ cliPc' = "failed"
  /\ UNCHANGED <<isWatching, isTTY, watchForStdin, isExiting, unsubscribe, isProfiling,
                 isRaw, pending, unsubscribed, stopped, disposed, exited, terminated,
                 requests, firstCode>>
  /\ UNCHANGED vars

\* await exit(1) in the catch block
ExitAfterFailure ==
  /\ cliPc = "failed"
  /\ ~terminated
  /\ exit("1")
  /\ cliPc' = IF isExiting THEN "afterFail" ELSE "awaitExit"
  /\ UNCHANGED <<isWatching, isTTY, watchForStdin, unsubscribe, isProfiling, requests>>
  /\ UNCHANGED vars

\* await exit() after the catch block, once exit(1) has returned
ExitAfterBuild ==
  /\ cliPc = "afterFail"
  /\ ~terminated
  /\ exit("0")
  /\ cliPc' = "returned"
  /\ UNCHANGED <<isWatching, isTTY, watchForStdin, unsubscribe, isProfiling, requests>>
  /\ UNCHANGED vars

\* await unsubscribe() or await parcel.stopProfiling() returns in a
\* suspended exit(): the rest of exit()
ExitResumes ==
  /\ ~terminated
  /\ \E i \in DOMAIN pending :
       /\ Shutdown(pending[i])
       /\ pending' = SubSeq(pending, 1, i - 1) \o SubSeq(pending, i + 1, Len(pending))
  /\ UNCHANGED <<cliPc, isWatching, isTTY, watchForStdin, isExiting, unsubscribe,
                 isProfiling, unsubscribed, stopped, requests, firstCode>>
  /\ UNCHANGED vars

\* await unsubscribe() or await parcel.stopProfiling() throws in a suspended
\* exit(): the rejection ends the process through handleUncaughtException,
\* exit() does not go on.
ExitAwaitThrows ==
  /\ ~terminated
  /\ \E i \in DOMAIN pending :
       pending' = SubSeq(pending, 1, i - 1) \o SubSeq(pending, i + 1, Len(pending))
  /\ terminated' = TRUE
  /\ UNCHANGED <<cliPc, isWatching, isTTY, watchForStdin, isExiting, unsubscribe,
                 isProfiling, isRaw, unsubscribed, stopped, disposed, exited, requests,
                 firstCode>>
  /\ UNCHANGED vars

NextCli ==
  \/ RunStart
  \/ WatchStarted
  \/ KeypressCtrlC
  \/ KeypressCtrlE
  \/ Signal
  \/ StdinEnd
  \/ BuildSucceeds
  \/ BuildFails
  \/ ExitAfterFailure
  \/ ExitAfterBuild
  \/ ExitResumes
  \/ ExitAwaitThrows

SpecCli == InitCli /\ [][NextCli]_<<vars, cliVars>>


(***************************************************************************)
(* The output tree                                                         *)
(***************************************************************************)
\* A wrapper function that declares neither exports nor module.
InBareWrapper(s) == [s EXCEPT !.ctx = "fn"]

\* WRAPPER_TEMPLATE: a statement of the body once inside the wrapper, a
\* function that declares exports and module.
InWrapper(s) ==
  [s EXCEPT !.ctx = "fn",
            !.bound = IF s.kind \in {"ModuleRef", "ModuleExports", "ExportsRef", "Return"}
                        THEN TRUE ELSE @]

\* The program body hoist leaves, with each statement's lexical context.
OutputBody ==
  IF wrapped THEN [i \in DOMAIN body |-> InWrapper(body[i])] ELSE body

\* The bindings of the output's program scope.
OutputBindings ==
  IF wrapped THEN {getIdentifier("exports", <<>>)} ELSE BindsOf(body)

\* Every name that occurs in the output as a binding or as a reference.
OutputNames ==
  BindsOf(body) \cup RefsOf(body)
    \cup (IF wrapped THEN {getIdentifier("exports", <<>>), EXPORTS, MODULE_} ELSE {})

ImportExportKinds == {"Import", "ExportDefault", "ExportNamed", "ExportAll"}

NoMeta == [isCommonJS |-> FALSE, isES6Module |-> FALSE, resolveExportsBailedOut |-> FALSE]

\* The pre-scan of the module as given, and of the tree hoist produced, each
\* for an asset whose meta is still empty.
FirstScan == PreScan(input, NoMeta, NoSymbols, FALSE)

SecondScan == PreScan(OutputBody, NoMeta, NoSymbols, FALSE)

Done == pc = "done"


(***************************************************************************)
(* Properties                                                              *)
(***************************************************************************)
\* The constructs the wrap rule names: (a) a return with no enclosing
\* function, (b) an eval call with no binding for eval, (c) a free module
\* reference whose parent is neither typeof nor a static member access
\* module.<id> or module["id"].
WrapCause(s) ==
  \/ s.kind = "Return" /\ s.ctx # "fn"
  \/ s.kind = "EvalCall" /\ ~s.bound
  \/ s.kind = "ModuleRef" /\ ~s.bound /\ s.shape = "bare"

\* C1: after the pre-scan, shouldWrap is true if and only if the input tree
\* holds a top-level return, an unshadowed eval call, or a free module
\* reference outside typeof module, module.<id> and module["id"].
C1_WrapIffCause ==
  pc # "start" => (shouldWrap <=> \E i \in DOMAIN input : WrapCause(input[i]))

\* C2: when hoist finishes on a module for which shouldWrap was set, the
\* symbol table maps "*" to the exports identifier, isCommonJS is true and
\* isES6Module is false.
C2_WrappedIsCommonJS ==
  (Done /\ shouldWrap) =>
    /\ SymHas(symbols, STAR)
    /\ SymGet(symbols, STAR).local = getName("exports", <<>>)
    /\ meta.isCommonJS
    /\ ~meta.isES6Module

\* A wrapped module whose pre-scan saw an import or an export has finished.
C2_Witness ==
  /\ Done
  /\ shouldWrap
  /\ \E i \in DOMAIN input : input[i].kind \in ImportExportKinds
  /\ FirstScan.isES6Module

\* C3: when hoist finishes on a module that is not wrapped and isCommonJS is
\* true, the symbol table has the key "*" with the exports identifier as local.
C3_CommonJSHasStar ==
  (Done /\ ~shouldWrap /\ meta.isCommonJS) =>
    /\ SymHas(symbols, STAR)
    /\ SymGet(symbols, STAR).local = getName("exports", <<>>)

\* A non-wrapped ES module that a handler of the body walk marked CommonJS
\* has finished.
C3_Witness ==
  /\ Done
  /\ ~shouldWrap
  /\ meta.isCommonJS
  /\ meta.isES6Module
  /\ ~FirstScan.isCommonJS


\* The runtime placeholders a binding may be named after.
Placeholders ==
  { PARCEL_REQUIRE, <<"$parcel$require$resolve">>, PARCEL_EXPORT_WILDCARD,
    PARCEL_EXPORT, PARCEL_GLOBAL, <<"parcelRequire">>, EXPORTS }

\* '$' + asset.id + '$', the prefix of every generated name.
GeneratedPrefix == <<"$", AssetId, "$">>

\* C4: after hoist finishes on a non-wrapped module, every binding of the
\* program scope has a name that begins with '$' + asset.id + '$' or is a
\* runtime placeholder.
C4_RenamingClosure ==
  (Done /\ ~shouldWrap) =>
    \A n \in OutputBindings : StartsWith(n, GeneratedPrefix) \/ n \in Placeholders

\* C5: after hoist finishes on a non-wrapped module, the tree holds no
\* import declaration and no export declaration.
C5_NoImportExportLeft ==
  (Done /\ ~shouldWrap) =>
    \A i \in DOMAIN body : body[i].kind \notin ImportExportKinds

\* A non-wrapped module that held an export declaration with a declaration
\* and an import or another export has finished.
C5_Witness ==
  /\ Done
  /\ ~shouldWrap
  /\ \E i \in DOMAIN input : input[i].kind = "ExportNamed" /\ input[i].shape = "decl"
  /\ \E i \in DOMAIN input : input[i].kind \in {"Import", "ExportDefault", "ExportAll"}

\* C6: after hoist finishes, no 'use strict' directive is left, at the
\* program level or in a function, in wrapped and non-wrapped modules alike.
C6_NoUseStrictLeft ==
  Done => /\ ~progDirective
          /\ \A i \in DOMAIN body : ~body[i].strict

\* A wrapped module that held a function with a directive has finished.
C6_Witness ==
  /\ Done
  /\ shouldWrap
  /\ wrapped
  /\ \E i \in DOMAIN input : input[i].strict


\* C7: a second pre-scan, run on the tree hoist produced, yields the same
\* isCommonJS / isES6Module classification and the same shouldWrap as the
\* first pre-scan.
C7_ClassificationIdempotent ==
  Done => /\ SecondScan.isCommonJS = FirstScan.isCommonJS
          /\ SecondScan.isES6Module = FirstScan.isES6Module
          /\ SecondScan.shouldWrap = FirstScan.shouldWrap

\* C7, amended: a second pre-scan of the tree hoist produced classifies it
\* as CommonJS and not as an ES module, and sets shouldWrap exactly when the
\* tree still holds an unshadowed eval call; so the second run agrees with
\* the first exactly for modules the first run classified CommonJS only and
\* that were not wrapped or hold such an eval call.
C7_SecondScanIsCommonJS ==
  Done => /\ SecondScan.isCommonJS
          /\ ~SecondScan.isES6Module
          /\ (SecondScan.shouldWrap <=>
                \E i \in DOMAIN body : body[i].kind = "EvalCall" /\ ~body[i].bound)

\* A pure ES module, and a module wrapped for a top-level return or a free
\* module reference, have finished: an ES module wrapped for such a cause.
C7_Witness ==
  /\ Done
  /\ wrapped
  /\ FirstScan.isES6Module
  /\ ~\E i \in DOMAIN body : body[i].kind = "EvalCall"

\* C8: after hoist finishes, the local name of every non-weak entry of the
\* asset's symbol table occurs in the output tree as a binding or a reference.
C8_SymbolsReachable ==
  Done => \A e \in symbols : ~e.isWeak => e.local \in OutputNames

\* C9: for a call require(s) with one string-literal argument and no local
\* binding for require, the CallExpression handler replaces the call by
\* $parcel$require(asset.id, s) when a dependency has the specifier s, and
\* otherwise leaves the call, asset.meta and every dependency unchanged.
C9_RequireReplacedIffDependency ==
  [][(Visiting({"Require"}) /\ ~body[pos].bound) =>
       IF body[pos].src \in DOMAIN deps
         THEN /\ body'[pos].kind = "ParcelRequire"
              /\ body'[pos].refs = {PARCEL_REQUIRE}
              /\ body'[pos].key = <<AssetId>>
              /\ body'[pos].src = body[pos].src
         ELSE /\ body' = body
              /\ meta' = meta
              /\ deps' = deps]_vars

\* A module with a require of a declared dependency and a require of an
\* unknown specifier has finished: one replaced, the other left.
C9_Witness ==
  /\ Done
  /\ \E i \in DOMAIN body :
       body[i].kind = "Require" /\ ~body[i].bound /\ body[i].src \notin DOMAIN deps
  /\ \E i \in DOMAIN body : body[i].kind = "ParcelRequire"


\* The declarations that are hoisted, and the statements they are hoisted as.
IsHoisting(s) ==
  \/ s.kind \in {"Import", "ExportAll"}
  \/ s.kind = "ExportNamed" /\ s.shape = "from"

IsHoisted(s) == s.kind = "Hoisted"

\* The source, and the template, of each statement of q.
HoistedAs(q) ==
  [i \in DOMAIN q |->
     <<q[i].src,
       IF q[i].kind = "ExportAll" \/ (IsHoisted(q[i]) /\ q[i].shape = "wildcard")
         THEN "wildcard" ELSE "require">>]

\* The hoisted statements are, in body order, the declarations handled so
\* far in source order; they are adjacent, and the scope's hoistedImport is
\* the last of them.
HoistedInSourceOrder ==
  /\ HoistedAs(SelectSeq(body, IsHoisted)) \o HoistedAs(SelectSeq(body, IsHoisting))
       = HoistedAs(SelectSeq(input, IsHoisting))
  /\ \A i, j, k \in DOMAIN body :
       (i < j /\ j < k /\ IsHoisted(body[i]) /\ IsHoisted(body[k])) => IsHoisted(body[j])
  /\ \A i \in DOMAIN body :
       (IsHoisted(body[i]) /\ (i = Len(body) \/ ~IsHoisted(body[i + 1])))
         => hoistedImport = i

\* The first hoisted statement goes to the top of the body, each later one
\* right after the statement hoisted before it.
HoistedPlacement ==
  (pc = "walk" /\ sub = "enter" /\ pos \in DOMAIN body /\ IsHoisting(body[pos])) =>
    IF hoistedImport = 0
      THEN /\ hoistedImport' = 1
           /\ IsHoisted(body'[1])
           /\ body'[1].src = body[pos].src
      ELSE /\ hoistedImport' = hoistedImport + 1
           /\ body'[hoistedImport] = body[hoistedImport]
           /\ IsHoisted(body'[hoistedImport + 1])
           /\ body'[hoistedImport + 1].src = body[pos].src

\* C10: the hoisted $parcel$require and $parcel$exportWildcard statements
\* stand in the body in the order of the import, re-export and export-all
\* declarations they come from; the first is placed at the top of the body
\* and each later one immediately after the one hoisted before it.
C10_HoistedOrder == []HoistedInSourceOrder /\ [][HoistedPlacement]_vars

\* A module with two hoisting declarations of different sources has
\* finished, its two hoisted statements adjacent.
C10_Witness ==
  /\ Done
  /\ \E i \in DOMAIN body :
       /\ i + 1 \in DOMAIN body
       /\ IsHoisted(body[i])
       /\ IsHoisted(body[i + 1])
       /\ body[i].src # body[i + 1].src


\* C11: hoist throws for a tree whose type is not 'babel' or whose version
\* is not '7.0.0', before any traversal: asset.meta, the symbol table, the
\* dependencies and the tree are as they were given and setAST is not called;
\* and it throws for no other tree at that point.
C11_RejectsUnsupportedAST ==
  /\ ((ast.type # "babel" \/ ast.version # "7.0.0") /\ pc # "start") =>
       /\ pc = "error"
       /\ error = "Asset does not have a babel AST"
       /\ meta = NoMeta
       /\ symbols = NoSymbols
       /\ deps = InitialDeps
       /\ body = input
       /\ ~astSet
  /\ error = "Asset does not have a babel AST" =>
       (ast.type # "babel" \/ ast.version # "7.0.0")

\* hoist has thrown for a tree of the right type and the wrong version.
C11_Witness ==
  /\ pc = "error"
  /\ ast.type = "babel"
  /\ ast.version # "7.0.0"
  /\ Len(input) > 0


\* An import declaration whose source no dependency of the asset has is
\* being visited.
ImportWithoutDependency ==
  /\ Visiting({"Import"})
  /\ body[pos].src \notin DOMAIN deps

\* C12: when an import declaration's source matches no dependency, the
\* transform raises an assertion failure instead of rewriting the declaration.
C12_ImportWithoutDependencyRaises ==
  [][ImportWithoutDependency => (pc' = "error" /\ body' = body)]_vars

\* C12, amended: when an import declaration's source matches no dependency,
\* the handler raises nothing and rewrites the declaration as for any other
\* import: it hoists $parcel$require(asset.id, source), removes the
\* declaration and changes no dependency.
C12_ImportWithoutDependencyRewritten ==
  [][ImportWithoutDependency =>
       /\ pc' = "walk"
       /\ error' = ""
       /\ deps' = deps
       /\ Len(body') = Len(body)
       /\ \A i \in DOMAIN body' : body'[i].kind # "Import" \/ body'[i] \in Range(body) \ {body[pos]}
       /\ body'[hoistedImport'] = HoistedRequire(body[pos].src)]_vars

\* A module with an import of a source that is no dependency has finished,
\* the hoisted call in its output.
C12_Witness ==
  /\ Done
  /\ \E i \in DOMAIN input : input[i].kind = "Import" /\ input[i].src \notin DOMAIN deps
  /\ \E i \in DOMAIN body : IsHoisted(body[i]) /\ body[i].src \notin DOMAIN deps


\* The body without its function-level directives.
WithoutDirectives(b) == [i \in DOMAIN b |-> [b[i] EXCEPT !.strict = FALSE]]

\* C13: once shouldWrap is set, no step of the body walk rewrites a node of
\* the body (directives apart) or modifies a dependency.
C13_WrappedBodyUntouched ==
  [][(pc = "walk" /\ shouldWrap /\ pc' = "walk") =>
       /\ WithoutDirectives(body') = WithoutDirectives(body)
       /\ deps' = deps]_vars

\* The rewrites of a wrapped module are done: no import or export
\* declaration, no require of a dependency and no free global is left.
WrappedRewritesDone ==
  \A i \in DOMAIN body :
    /\ body[i].kind \notin ImportExportKinds
    /\ body[i].kind = "Require" => (body[i].bound \/ body[i].src \notin DOMAIN deps)
    /\ body[i].kind = "GlobalRef" => body[i].bound

\* The handlers that test shouldWrap: on module, module.exports, exports,
\* typeof module and assignments to exports.
GatedByShouldWrap ==
  /\ shouldWrap
  /\ Visiting({"ModuleRef", "ModuleExports", "ExportsRef"})

\* C13, amended: in a module the pre-scan decided to wrap, the handlers for
\* module, module.exports, exports and typeof module leave their nodes, the
\* flags and every symbol table unchanged; require calls of a dependency,
\* import and export declarations and free global references are still
\* rewritten, with the dependency symbol tables they record.
C13_WrappedOnlyGatedUntouched ==
  /\ []((Done /\ shouldWrap) => WrappedRewritesDone)
  /\ [][GatedByShouldWrap =>
          /\ WithoutDirectives(body') = WithoutDirectives(body)
          /\ meta' = meta
          /\ symbols' = symbols
          /\ deps' = deps]_vars

\* A wrapped module whose require of a dependency was replaced, and recorded
\* on the dependency, has finished.
C13_Witness ==
  /\ Done
  /\ wrapped
  /\ \E i \in DOMAIN body : body[i].kind = "ParcelRequire"
  /\ deps # InitialDeps


\* The dependency symbols a namespace import of "a" has left.
NamespaceSymbols == deps["a"].symbols

\* The namespace import of the module, and the uses of the namespace.
HasNamespaceImport ==
  \E i \in DOMAIN input : input[i].kind = "Import" /\ input[i].shape = "namespace"

NamespaceUses(shapes) ==
  \E i \in DOMAIN input : input[i].kind = "NsRef" /\ input[i].shape \in shapes

\* The only way "*" can come from elsewhere: export * from "a", require("a").
StarFromElsewhere ==
  \E i \in DOMAIN input :
    input[i].src = "a" /\ input[i].kind \in {"ExportAll", "Require"}

\* C14: after a namespace import import * as ns from s with a matching
\* dependency, every reference ns.k or ns["k"] has been replaced by an import
\* identifier and dep.symbols[k] is recorded; dep.symbols has a "*" entry
\* from this import if and only if some reference to ns is not such a member
\* access.
C14_NamespaceMembers ==
  (Done /\ HasNamespaceImport /\ (isSource \/ NamespaceUses({"static", "string", "both", "value"})))
    =>
    /\ \A i \in DOMAIN body : body[i].kind = "NsRef" => body[i].shape = "value"
    /\ NamespaceUses({"static", "string", "both"}) =>
         /\ SymHas(NamespaceSymbols, NK)
         /\ SymGet(NamespaceSymbols, NK).local \in RefsOf(body)
         /\ NS \notin RefsOf(body) \cup BindsOf(body)
    /\ ~StarFromElsewhere =>
         /\ SymHas(NamespaceSymbols, STAR) <=> NamespaceUses({"both", "value"})
         /\ NamespaceUses({"both", "value"}) =>
              SymGet(NamespaceSymbols, STAR).local \in RefsOf(body)
    /\ NamespaceUses({"both", "value"}) => SymHas(NamespaceSymbols, STAR)

\* A module with a namespace import whose only use is a member access has
\* finished: the member is recorded, "*" is not.
C14_Witness ==
  /\ Done
  /\ HasNamespaceImport
  /\ NamespaceUses({"string"})
  /\ SymHas(NamespaceSymbols, NK)
  /\ ~SymHas(NamespaceSymbols, STAR)

\* The handler is at require(s) / import(s) of a dependency of the asset.
AtDependencyCall ==
  /\ Visiting({"Require"})
  /\ ~body[pos].bound
  /\ body[pos].src \in DOMAIN deps

\* The references to the binding of let ns = await import(s).
ContinuationUses == {q \in references : q.name \in body[pos].binds}

\* The members the continuation of the dynamic import accesses.
AccessedMembers ==
  IF body[pos].shape = "pattern" THEN {body[pos].key}
  ELSE {q.prop : q \in ContinuationUses}

\* A destructuring continuation with identifier keys.
DestructuringShape == body[pos].shape = "pattern"

\* A binding continuation whose binding is only used in member accesses.
BindingShape ==
  /\ body[pos].shape = "binding"
  /\ \A q \in ContinuationUses : q.prop # <<>>

\* One entry per accessed member, named after the dependency and the member;
\* no "*" entry and no CommonJS mark come from this call.
MembersRecorded ==
  LET src == body[pos].src
  IN /\ SymKeys(deps'[src].symbols) = SymKeys(deps[src].symbols) \cup AccessedMembers
     /\ \A k \in AccessedMembers :
          SymGet(deps'[src].symbols, k).local
            = <<"$", AssetId, "$", "importAsync", "$", src, "$">> \o k
     /\ deps'[src].meta.isCommonJS = deps[src].meta.isCommonJS

\* The whole namespace is recorded and the dependency is marked CommonJS.
NamespaceRecorded ==
  LET src == body[pos].src
  IN /\ deps'[src].meta.isCommonJS
     /\ SymHas(deps'[src].symbols, STAR)
     /\ SymGet(deps'[src].symbols, STAR).local = <<"$", AssetId, "$", "require", "$", src>>
     /\ SymKeys(deps'[src].symbols) = SymKeys(deps[src].symbols) \cup {STAR}

\* C15: a dynamic import of an async dependency in a recognized continuation
\* shape whose accessed keys are all identifiers records exactly one entry
\* per accessed member, with local $<asset.id>$importAsync$<dep.id>$<member>,
\* and no "*"; in every other case the dependency is marked CommonJS and "*"
\* is recorded with local $<asset.id>$require$<source>.
C15_DynamicImportMembers ==
  [][AtDependencyCall =>
       IF deps[body[pos].src].isAsync /\ (DestructuringShape \/ BindingShape)
         THEN MembersRecorded
         ELSE NamespaceRecorded]_vars

\* C15, amended: the binding shapes (.then(ns => ...), let ns = await
\* import(s)) record members only in a module that is not wrapped (and whose
\* binding is never reassigned); in a wrapped module they record "*" and
\* mark the dependency CommonJS like every other case.
C15_DynamicImportMembersUnlessWrapped ==
  [][AtDependencyCall =>
       IF /\ deps[body[pos].src].isAsync
          /\ (DestructuringShape \/ (BindingShape /\ ~shouldWrap))
         THEN MembersRecorded
         ELSE NamespaceRecorded]_vars

\* A wrapped module has finished after let ns = await import("c") whose
\* binding is used in no other way than member accesses: "*" is recorded
\* under the require name and the dependency is CommonJS.
C15_Witness ==
  /\ Done
  /\ shouldWrap
  /\ \E i \in DOMAIN input : input[i].kind = "Require" /\ input[i].shape = "binding"
  /\ ~\E i \in DOMAIN input : input[i].kind = "NsRef" /\ input[i].shape \in {"both", "value"}
  /\ SymHas(deps["c"].symbols, STAR)
  /\ SymGet(deps["c"].symbols, STAR).local = getName("require", <<"c">>)
  /\ ~SymHas(deps["c"].symbols, NK)
  /\ deps["c"].meta.isCommonJS

\* The module holds a top-level exports.x = rhs or module.exports.x = rhs
\* whose exports / module is the free one.
HasStaticExportsAssignment ==
  \E i \in DOMAIN input :
    /\ input[i].kind \in {"ExportsRef", "ModuleExports"}
    /\ input[i].shape = "memberAssign"
    /\ input[i].key = NX
    /\ input[i].ctx = "top"
    /\ ~input[i].bound

StaticExportLocal == <<"$", AssetId, "$", "export", "$">> \o NX

\* meta, symbols and the hoisted declaration of the CommonJS export x.
StaticExportRecorded ==
  /\ meta.isCommonJS
  /\ SymHas(symbols, NX)
  /\ SymGet(symbols, NX).local = StaticExportLocal
  /\ SymHas(symbols, STAR)
  /\ \E j \in DOMAIN body :
       body[j].kind = "VarDecl" /\ body[j].shape = "export" /\ body[j].binds = {StaticExportLocal}

\* C16: a module that is not wrapped, with a top-level exports.K = rhs (or
\* module.exports.K = rhs), K static and neither "default" nor "*", and no
\* export-resolution bail-out, ends with meta.isCommonJS true, symbols[K]
\* local $<asset.id>$export$K, symbols["*"] present, a declaration
\* var $<asset.id>$export$K = rhs and a $parcel$export(<exports-id>, "K", ...)
\* call for K in the output.
C16_StaticExportsAssignment ==
  (Done /\ ~shouldWrap /\ HasStaticExportsAssignment /\ ~meta.resolveExportsBailedOut)
    =>
    /\ StaticExportRecorded
    /\ \E j \in DOMAIN body :
         /\ body[j].shape = "export"
         /\ body[j].key = NX
         /\ PARCEL_EXPORT \in body[j].refs

\* C16, amended: as C16 for a module with no export declaration of the name
\* K, but K is written to the exports object by an assignment
\* <exports-id>.K = $<asset.id>$export$K that takes the place of the
\* original one; no $parcel$export call is made for a CommonJS export.
C16_StaticExportsAssignmentKept ==
  (/\ Done /\ ~shouldWrap /\ HasStaticExportsAssignment /\ ~meta.resolveExportsBailedOut
   /\ \A i \in DOMAIN input : input[i].kind = "ExportNamed" => input[i].key # NX)
    =>
    /\ StaticExportRecorded
    /\ \E j \in DOMAIN body :
         /\ body[j].kind = "Expr"
         /\ PARCEL_EXPORT \notin body[j].refs
         /\ {<<"$", AssetId, "$", "exports">>, StaticExportLocal} \subseteq body[j].refs
    /\ (\A i \in DOMAIN input : input[i].kind \notin {"ExportDefault", "ExportNamed"})
         => \A j \in DOMAIN body : PARCEL_EXPORT \notin body[j].refs

\* A module whose only export is exports.x = rhs has finished unwrapped: the
\* symbol, the declaration and the assignment to the exports object are there.
C16_Witness ==
  /\ Done
  /\ ~shouldWrap
  /\ HasStaticExportsAssignment
  /\ ~meta.resolveExportsBailedOut
  /\ \A i \in DOMAIN input : input[i].kind \notin {"ExportNamed", "ExportDefault", "ExportAll"}
  /\ StaticExportRecorded
  /\ \E j \in DOMAIN body :
       {<<"$", AssetId, "$", "exports">>, StaticExportLocal} \subseteq body[j].refs

\* The module has a return statement with no enclosing function.
HasTopLevelReturn ==
  \E i \in DOMAIN input : input[i].kind = "Return" /\ input[i].ctx = "top"

\* C17: a module with one or more top-level return statements ends wrapped,
\* with meta.isCommonJS true, and every one of those return statements in the
\* wrapper returns module.exports; none still returns its original argument.
C17_TopLevelReturnsModuleExports ==
  (Done /\ HasTopLevelReturn)
    =>
    /\ wrapped
    /\ meta.isCommonJS
    /\ \A j \in DOMAIN body :
         (body[j].kind = "Return" /\ body[j].ctx = "top") => body[j].shape = "moduleExports"

\* An identifier-shaped name: no token of it holds a character that cannot
\* occur in an identifier.
IdentifierShaped(name) ==
  /\ name # <<>>
  /\ \A i \in DOMAIN name : name[i] \notin {"a-b", "*"}

AllSymbolKeys ==
  SymKeys(symbols) \cup UNION {SymKeys(deps[d].symbols) : d \in DOMAIN deps}

\* C18: every key written into the asset's symbol table or into a
\* dependency's symbol table is identifier-shaped, "default" or "*", names
\* taken from string-literal member accesses (ns["k"], exports["k"] = v,
\* module.exports["k"] = v) included.
C18_SymbolKeysIdentifierShaped ==
  \A k \in AllSymbolKeys : IdentifierShaped(k) \/ k \in {DEFAULT, STAR}

\* The module has an import or export declaration somewhere in its body.
HasImportOrExport ==
  \E i \in DOMAIN input :
    input[i].kind \in {"Import", "ExportDefault", "ExportNamed", "ExportAll"}

\* C19: after the pre-scan meta.isES6Module is true for every module with an
\* import or export declaration anywhere in its body, also when an
\* unshadowed eval call, a top-level return or a free module reference comes
\* earlier in tree order; so every wrapped module with an import or export
\* gets the exports.__esModule = true preamble.
C19_ES6ModuleSeenEverywhere ==
  /\ (pc = "walk" /\ HasImportOrExport) => meta.isES6Module
  /\ (Done /\ wrapped /\ HasImportOrExport) => esPreamble

\* The steps of one hoist run: Program.enter (the pre-scan), a handler of the
\* body walk at an import, an export or a CommonJS construct, Program.exit.
PreScanStep == pc = "start" /\ pc' = "walk"

HandlerStep ==
  Visiting({"Import", "ExportDefault", "ExportNamed", "ExportAll", "Require",
            "ExportsRef", "ModuleExports", "ModuleRef"})

ExitStep == pc = "walk" /\ pc' = "done"

\* A name of the form $<asset.id>$var$<original>.
IsVarName(name) == StartsWith(name, <<"$", AssetId, "$", "var", "$">>)

\* C20: within one hoist run the pre-scan observes the original tree without
\* modifying it, the renaming of the top-level bindings to
\* $<asset.id>$var$<original> happens after the pre-scan and before any
\* import, export or CommonJS handler of the body walk runs, and the wrapper
\* finalizer runs last.
C20_PhaseOrdering ==
  [][/\ PreScanStep => body' = body
     /\ (HandlerStep /\ ~shouldWrap) =>
          \A n \in BindsOf(body) : IsVarName(n) \/ StartsWith(n, AssetPrefix)
     /\ (wrapped' /\ ~wrapped) => ExitStep]_vars

\* C20, amended: the pre-scan changes the tree in one way only, a top-level
\* return becomes return module.exports; the handlers of the body walk run
\* after the pre-scan on the original top-level names; the renaming to
\* $<asset.id>$var$<original> is done by Program.exit, after the body walk
\* and only in a module that is not wrapped; the wrapper finalizer is
\* Program.exit in a wrapped module, the last step of the run.
C20_PhaseOrderingExitRenames ==
  [][/\ PreScanStep =>
          /\ Len(body') = Len(body)
          /\ \A i \in DOMAIN body :
               \/ body'[i] = body[i]
               \/ /\ body[i].kind = "Return"
                  /\ body[i].ctx = "top"
                  /\ body'[i] = [body[i] EXCEPT !.shape = "moduleExports", !.refs = {MODULE_}]
     /\ (\E n \in BindsOf(body') \ BindsOf(body) : IsVarName(n)) => (ExitStep /\ ~shouldWrap)
     /\ ExitStep =>
          /\ pos > Len(body)
          /\ wrapped' = shouldWrap
          /\ ~shouldWrap =>
               \A n \in BindsOf(body') : IsVarName(n) \/ StartsWith(n, AssetPrefix)
     /\ (wrapped' /\ ~wrapped) => ExitStep]_vars

\* A module with an import or export has finished unwrapped and one of its
\* top-level bindings carries a $<asset.id>$var$ name.
C20_Witness ==
  /\ Done
  /\ ~wrapped
  /\ HasImportOrExport
  /\ \E n \in BindsOf(body) : IsVarName(n)

\* The require calls of a dependency of the asset that are not at the top
\* level of the module.
NestedCallsOf(d) ==
  {i \in DOMAIN input :
     /\ input[i].kind = "Require"
     /\ ~input[i].bound
     /\ input[i].src = d
     /\ input[i].ctx \in {"fn", "block", "cond"}}

\* C21: a rewritten require(s) call with a matching dependency sets
\* dep.meta.shouldWrap if and only if its enclosing statement is not a direct
\* child of the program or the call has a conditional expression, a logical
\* expression or a function as an ancestor; a call at the top level never
\* sets it, and the shouldWrap of the importing asset is not affected.
C21_NestedRequireWrapsDependency ==
  /\ [][AtDependencyCall =>
          /\ body'[pos].kind = "ParcelRequire"
          /\ deps'[body[pos].src].meta.shouldWrap
               = (deps[body[pos].src].meta.shouldWrap \/ body[pos].ctx # "top")
          /\ \A d \in DOMAIN deps \ {body[pos].src} :
               deps'[d].meta.shouldWrap = deps[d].meta.shouldWrap
          /\ shouldWrap' = shouldWrap]_vars
  /\ [](Done => \A d \in DOMAIN InitialDeps :
                   deps[d].meta.shouldWrap <=> NestedCallsOf(d) # {})

\* A module has finished whose require("a") under a conditional expression
\* has marked the dependency, the module itself not being wrapped.
C21_Witness ==
  /\ Done
  /\ ~shouldWrap
  /\ \E i \in NestedCallsOf("a") : input[i].ctx = "cond"
  /\ deps["a"].meta.shouldWrap
  /\ ~deps["c"].meta.shouldWrap

\* A statement at which the pre-scan stops its traversal.
StopsPreScan(s) ==
  \/ s.kind = "Return" /\ s.ctx # "fn"
  \/ s.kind = "EvalCall" /\ ~s.bound
  \/ s.kind = "ModuleRef" /\ ~s.bound /\ s.shape \in {"bare", "computedStr"}

\* The pre-scan finds a free exports or module.exports that is neither the
\* left of an assignment nor the object of a static member access.
FindsExportsObject(b) ==
  \E i \in DOMAIN b :
    /\ b[i].kind \in {"ExportsRef", "ModuleExports"}
    /\ ~b[i].bound
    /\ b[i].shape = "bare"
    /\ \A j \in 1..(i - 1) : ~StopsPreScan(b[j])

\* C22: when the pre-scan finds a free exports reference or a module.exports
\* access outside the safe contexts, it sets meta.resolveExportsBailedOut and
\* adds a self-dependency whose symbol table maps "*" to "@exports"; when
\* such a module finishes non-wrapped with meta.isCommonJS, the symbol table
\* of the asset holds exactly one entry, "*" -> $<asset.id>$exports, whatever
\* named exports the body walk recorded.
C22_ExportsBailOut ==
  /\ [][(pc = "start" /\ pc' = "walk") =>
          /\ meta'.resolveExportsBailedOut <=> FindsExportsObject(body)
          /\ FindsExportsObject(body) =>
               /\ meta'.isCommonJS
               /\ SelfSpecifier \in DOMAIN deps'
               /\ deps'[SelfSpecifier].symbols
                    = {[key |-> STAR, local |-> <<"@exports">>, isWeak |-> FALSE]}
          /\ ~FindsExportsObject(body) => deps' = deps]_vars
  /\ []((Done /\ ~wrapped /\ meta.resolveExportsBailedOut /\ meta.isCommonJS) =>
          symbols = {[key |-> STAR, local |-> <<"$", AssetId, "$", "exports">>,
                      isWeak |-> FALSE]})

\* A module that uses exports as a value and assigns exports.x has finished
\* unwrapped: the bail-out is set, the self-dependency is there, and the name
\* x the body walk recorded is gone.
C22_Witness ==
  /\ Done
  /\ ~wrapped
  /\ meta.resolveExportsBailedOut
  /\ \E i \in DOMAIN input :
       input[i].kind \in {"ExportsRef", "ModuleExports"} /\ input[i].shape = "memberAssign"
  /\ SelfSpecifier \in DOMAIN deps
  /\ SymKeys(symbols) = {STAR}

\* The module imports x from "a" and uses it in another way than as the
\* local of an export specifier.
ImportedNameUsed ==
  /\ \E i \in DOMAIN input : input[i].kind = "Import" /\ input[i].src = "a" /\ input[i].key = NX
  /\ \E i \in DOMAIN input : input[i].kind = "Expr" /\ NX \in input[i].refs

\* C23: after hoist has finished, a dependency symbol entry is weak only if
\* the only use of the imported name in the module is a pass-through
\* re-export: whatever the order of the import specifiers and the
\* export ... from re-exports of the same symbol of the same dependency, a
\* use other than a re-export leaves the final entry not weak.
C23_WeakOnlyIfPassThrough ==
  (Done /\ ImportedNameUsed /\ SymHas(deps["a"].symbols, NX))
    => ~SymGet(deps["a"].symbols, NX).isWeak

\* The handler is at a free exports in a module that is not wrapped, in one
\* of the given shapes.
AtFreeExports(shapes) ==
  /\ Visiting({"ExportsRef"})
  /\ body[pos].shape \in shapes
  /\ ~body[pos].bound
  /\ ~shouldWrap

\* The statement that has taken the place of the visited one (statements
\* inserted before it move it down).
Replacement == body'[pos + Len(body') - Len(body)]

EXPORTS_ID == <<"$", AssetId, "$", "exports">>

CJS_EXPORTS_ID == <<"$", AssetId, "$", "cjs_exports">>

\* C24: in a module that is not wrapped, cjsExportsReassigned starts false,
\* becomes true when the first free exports = rhs is visited and is never
\* reset; a free exports reference is replaced by $<asset.id>$exports when it
\* is visited while the flag is false and by $<asset.id>$cjs_exports when it
\* is visited after the flag is set; the object of a static exports.K = rhs
\* is replaced by $<asset.id>$exports whatever the flag is.
C24_CJSExportsReassigned ==
  [][/\ (pc = "start" /\ pc' = "walk") => ~cjsExportsReassigned'
     /\ (pc = "walk" /\ cjsExportsReassigned) => cjsExportsReassigned'
     /\ (pc = "walk" /\ ~shouldWrap) =>
          ((~cjsExportsReassigned /\ cjsExportsReassigned') <=> AtFreeExports({"assignLeft"}))
          \/ cjsExportsReassigned
     /\ AtFreeExports({"assignLeft"}) => cjsExportsReassigned'
     /\ AtFreeExports({"bare", "member"}) =>
          Replacement.refs = {IF cjsExportsReassigned THEN CJS_EXPORTS_ID ELSE EXPORTS_ID}
     /\ AtFreeExports({"memberAssign"}) =>
          /\ EXPORTS_ID \in Replacement.refs
          /\ CJS_EXPORTS_ID \notin Replacement.refs
          /\ EXPORTS \notin Replacement.refs]_vars

\* A module has finished in which exports = rhs comes before a use of exports
\* as a value: the flag is set and the use reads $<asset.id>$cjs_exports.
C24_Witness ==
  /\ Done
  /\ ~shouldWrap
  /\ cjsExportsReassigned
  /\ Len(input) = 2
  /\ input[1].kind = "ExportsRef" /\ input[1].shape = "assignLeft"
  /\ input[2].kind = "ExportsRef" /\ input[2].shape = "bare"
  /\ body[Len(body)].refs = {CJS_EXPORTS_ID}

\* C25: in run(), for every interleaving of exit requests (ctrl-c, SIGINT,
\* SIGTERM, stdin end, build success, build failure) the shutdown sequence
\* runs at most once: only the first call of exit() calls unsubscribe (or
\* stopProfiling), disposes the disposable and calls process.exit, with the
\* exit code of that first request; every later call returns without effect.
C25_ShutdownOnce ==
  /\ [](/\ unsubscribed + stopped <= 1
        /\ disposed <= 1
        /\ Len(exited) <= 1
        /\ Len(pending) <= 1
        /\ (unsubscribed + stopped + disposed > 0) => isExiting
        /\ pending # <<>> => pending[1] = firstCode
        /\ exited # <<>> => (exited[1] = firstCode /\ disposed = 1))
  /\ [][isExiting =>
          /\ isExiting'
          /\ firstCode' = firstCode
          /\ unsubscribed' = unsubscribed
          /\ stopped' = stopped
          /\ Len(pending') <= Len(pending)
          /\ (disposed' # disposed \/ exited' # exited) =>
               (pending # <<>> /\ exited' = <<pending[1]>>)]_<<vars, cliVars>>

\* A watching run has shut down after three requests: unsubscribe was called
\* once, the process ended with the code of the first request.
C25_Witness ==
  /\ requests = MaxRequests
  /\ isWatching
  /\ unsubscribed = 1
  /\ disposed = 1
  /\ exited = <<firstCode>>
  /\ firstCode = "SIGTERM"

====
